---- MODULE Spec2Model ----
(***************************************************************************)
(* Model of the openclaw memory status store: the advisory file lock       *)
(* (withFileLock), the audit gate (runAudit / auditExitCode), the conflict *)
(* detector and the three-bucket status store (applyStatusChange,          *)
(* applyConflictMerge, initializeStatusStore) together with the scripts    *)
(* that write the same files without the lock.                             *)
(*                                                                         *)
(* Encoding.  Strings that the code orders with localeCompare (id, topic,  *)
(* key) are natural numbers in the same order; ISO days are day numbers;   *)
(* an absent optional field is 0 (updated), "" (service, region) or <<>>   *)
(* (next).  A YAML file is the sequence of its records; a file that does   *)
(* not exist has exists = FALSE.                                           *)
(***************************************************************************)
EXTENDS Integers, Sequences, FiniteSets, TLC

\* ---------------------------------------------------------------- bounds
Today    == 10          \* the day every call of a run uses as `today`
MaxValue == 2           \* merged values are drawn from 1..MaxValue

Procs    == {1, 2}      \* concurrent callers (processes)
Ids      == {1, 2, 3}   \* ids a caller may name
Values   == 1..MaxValue
Statuses == {"active", "pending", "deprecated"}

\* memory-status-lib.ts:54
STATUS_ORDER == <<"active", "pending", "deprecated">>

CanonicalFile == "MEMORY.yml"
RuntimeFile   == "MEMORY.md"
FileNames     == Statuses \cup {CanonicalFile, RuntimeFile}

\* ------------------------------------------------------------ data model
Scope(env) == [env |-> env, service |-> "", region |-> ""]

\* a well-formed record (MemoryItem) with the window [from, exp]
Item(id, topic, value, status, from, exp) ==
  [id |-> id, topic |-> topic, key |-> 1, value |-> value, status |-> status,
   source |-> "docs/memory.md", effective_from |-> from, expires |-> exp,
   scope |-> Scope("all"), updated |-> 0, next |-> <<>>]

AbsentFile == [exists |-> FALSE, rows |-> <<>>]
FileOf(rows) == [exists |-> TRUE, rows |-> rows]

\* ------------------------------------------------- memory-governance-lib
isValidSource(source) ==
  source \in {"https://example.org/a", "docs/memory.md", "memory/notes.md", "src/a.ts"}

\* value.trim().toLowerCase() on the texts a hand-edited file may hold
trimLower(value) ==
  CASE value = " Pending" -> "pending"
    [] value = "PROD" -> "prod"
    [] OTHER -> value

\* the null of normalizeStatus and normalizeEnv
NullText == "<null>"

normalizeStatus(value) ==
  IF trimLower(value) \in Statuses THEN trimLower(value) ELSE NullText

\* an absent env ("") is `all`
normalizeEnv(value) ==
  IF value = "" THEN "all"
  ELSE IF trimLower(value) \in {"all", "prod", "staging", "dev"} THEN trimLower(value)
  ELSE NullText

\* issue codes buildItem raises for one raw record (an absent id is 0)
buildItemIssues(raw) ==
  (IF raw.id = 0 THEN {"schema"} ELSE {})
  \cup (IF raw.source = "" \/ ~isValidSource(raw.source) THEN {"no-source"} ELSE {})
  \cup (IF raw.effective_from > raw.expires THEN {"schema"} ELSE {})
  \cup (IF normalizeStatus(raw.status) = NullText THEN {"schema"} ELSE {})
  \cup (IF normalizeEnv(raw.scope.env) = NullText THEN {"schema"} ELSE {})

\* the item buildItem makes of a raw record that raised no issue
buildItem(raw) ==
  [raw EXCEPT !.status = normalizeStatus(raw.status),
              !.scope.env = normalizeEnv(raw.scope.env)]

\* (variant) an item that expires today counts as expired
isExpired_Inclusive(item, today) == item.expires <= today

\* parseIsoDay of both days, then itemTs < todayTs
isExpired(item, today) == item.expires < today

\* (variant) the comparator skips the key
ItemBefore_IgnoresKey(a, b) ==
  \/ a.topic < b.topic
  \/ a.topic = b.topic /\ a.id < b.id

ItemBefore(a, b) ==
  \/ a.topic < b.topic
  \/ a.topic = b.topic /\ a.key < b.key
  \/ a.topic = b.topic /\ a.key = b.key /\ a.id < b.id

\* (variant) x goes in front of the elements it compares equal to
InsertSorted_BeforeEquals(s, x) ==
  LET n == Cardinality({i \in 1..Len(s) : ItemBefore(s[i], x)})
  IN  SubSeq(s, 1, n) \o <<x>> \o SubSeq(s, n + 1, Len(s))

\* insert x behind every element that does not sort after it (stable)
InsertSorted(s, x) ==
  LET n == Cardinality({i \in 1..Len(s) : ~ItemBefore(x, s[i])})
  IN  SubSeq(s, 1, n) \o <<x>> \o SubSeq(s, n + 1, Len(s))

RECURSIVE sortItems(_)
sortItems(items) ==
  IF items = <<>> THEN <<>>
  ELSE InsertSorted(sortItems(SubSeq(items, 1, Len(items) - 1)), items[Len(items)])

\* (variant) the loop stops at the first record with an issue
readMemoryItems_StopsAtInvalid(file) ==
  IF ~file.exists
  THEN [items |-> <<>>, issues |-> {[code |-> "schema", ids |-> {}]}]
  ELSE LET bad  == {i \in 1..Len(file.rows) : buildItemIssues(file.rows[i]) # {}}
           stop == IF bad = {} THEN Len(file.rows) ELSE CHOOSE i \in bad : \A j \in bad : i <= j
       IN  [items  |-> [k \in 1..(IF bad = {} THEN stop ELSE stop - 1) |-> buildItem(file.rows[k])],
            issues |-> {[code |-> c, ids |-> {file.rows[stop].id} \ {0}] :
                          c \in (IF bad = {} THEN {} ELSE buildItemIssues(file.rows[stop]))}]

\* readMemoryItems: the items of the records that raise no issue, in file
\* order, and the issues of the others; a missing file is one schema issue
readMemoryItems(file) ==
  IF ~file.exists
  THEN [items |-> <<>>, issues |-> {[code |-> "schema", ids |-> {}]}]
  ELSE LET accepted == SelectSeq(file.rows, LAMBDA r : buildItemIssues(r) = {})
       IN  [items  |-> [k \in 1..Len(accepted) |-> buildItem(accepted[k])],
            issues |-> {[code |-> ic[2], ids |-> {file.rows[ic[1]].id} \ {0}] :
                          ic \in {jc \in (1..Len(file.rows)) \X {"schema", "no-source"} :
                                    jc[2] \in buildItemIssues(file.rows[jc[1]])}}]

\* serializeItems + writeTextFileAtomic: the file becomes the sorted list
writeMemoryItems(items) == FileOf(sortItems(items))

\* -------------------------------------------------------- memory-conflicts
\* (variant) an open-interval test
datesOverlap_Open(aStart, aEnd, bStart, bEnd) == aStart < bEnd /\ bStart < aEnd

\* parseIsoDay of both windows, then aStartTs <= bEndTs && bStartTs <= aEndTs
datesOverlap(aStart, aEnd, bStart, bEnd) == aStart <= bEnd /\ bStart <= aEnd

\* (variant) only the left scope's wildcards are honoured
scopesIntersect_LeftOnly(a, b) ==
  /\ a.env = "all" \/ a.env = b.env
  /\ a.service = "" \/ a.service = b.service
  /\ a.region = "" \/ a.region = b.region

scopesIntersect(a, b) ==
  /\ a.env = "all" \/ b.env = "all" \/ a.env = b.env
  /\ a.service = "" \/ b.service = "" \/ a.service = b.service
  /\ a.region = "" \/ b.region = "" \/ a.region = b.region

\* (variant) the key is not compared
isConflictPair_AnyKey(left, right, allowedStatuses) ==
  /\ left.status \in allowedStatuses
  /\ right.status \in allowedStatuses
  /\ left.topic = right.topic
  /\ left.value # right.value
  /\ scopesIntersect(left.scope, right.scope)
  /\ datesOverlap(left.effective_from, left.expires, right.effective_from, right.expires)

isConflictPair(left, right, allowedStatuses) ==
  /\ left.status \in allowedStatuses
  /\ right.status \in allowedStatuses
  /\ left.topic = right.topic
  /\ left.key = right.key
  /\ left.value # right.value
  /\ scopesIntersect(left.scope, right.scope)
  /\ datesOverlap(left.effective_from, left.expires, right.effective_from, right.expires)

isActiveConflictPair(left, right) == isConflictPair(left, right, {"active"})

isUnresolvedConflictPair(left, right) == isConflictPair(left, right, {"active", "pending"})

\* An id as text is the sequence of its characters, each a number that
\* orders it as the collation does ("_" is 0, the digit d is d).  The id n
\* of an item of the store stands for the one-character text <<n>>.
IdText(n) == <<n>>

\* x.localeCompare(y): negative, zero or positive, by the first position
\* where the texts differ, a proper prefix first
localeCompare(x, y) ==
  LET n == IF Len(x) < Len(y) THEN Len(x) ELSE Len(y)
      d == {i \in 1..n : x[i] # y[i]}
  IN  IF d = {}
      THEN (IF Len(x) < Len(y) THEN -1 ELSE IF Len(x) > Len(y) THEN 1 ELSE 0)
      ELSE LET i == CHOOSE k \in d : \A m \in d : k <= m
           IN  IF x[i] < y[i] THEN -1 ELSE 1

\* the "__" of the template string
PairSeparator == <<0, 0>>

\* (variant) the two ids are joined in the order given
conflictPairId_Unsorted(aId, bId) == aId \o PairSeparator \o bId

\* [aId, bId].toSorted(localeCompare), then `${leftId}__${rightId}`
conflictPairId(aId, bId) ==
  LET sorted == IF localeCompare(aId, bId) <= 0 THEN <<aId, bId>> ELSE <<bId, aId>>
  IN  sorted[1] \o PairSeparator \o sorted[2]

\* the items with an allowed status, then the two loops (i, then j > i) over
\* them: the conflicting pairs in the order the loops push them
listConflictPairs(items, allowedStatuses) ==
  LET scoped == SelectSeq(items, LAMBDA it : it.status \in allowedStatuses)
      n      == Len(scoped)
      loops  == [k \in 1..(n * n) |-> <<((k - 1) \div n) + 1, ((k - 1) % n) + 1>>]
      pushed == SelectSeq(loops, LAMBDA ij :
                  /\ ij[1] < ij[2]
                  /\ isConflictPair(scoped[ij[1]], scoped[ij[2]], allowedStatuses))
  IN  [k \in 1..Len(pushed) |->
         [left |-> scoped[pushed[k][1]], right |-> scoped[pushed[k][2]]]]

listActiveConflictPairs(items) == listConflictPairs(items, {"active"})

listUnresolvedConflictPairs(items) == listConflictPairs(items, {"active", "pending"})

\* ------------------------------------------------------------------ audit
runAudit(items, initialIssues, today) ==
  initialIssues
  \cup {[code |-> "duplicate-id", ids |-> {items[i].id}] :
          i \in {k \in 1..Len(items) :
                   \E m \in 1..Len(items) : m # k /\ items[m].id = items[k].id}}
  \cup {[code |-> "stale", ids |-> {items[i].id}] :
          i \in {k \in 1..Len(items) :
                   items[k].status = "active" /\ isExpired(items[k], today)}}
  \cup {[code |-> "conflict", ids |-> {pr.left.id, pr.right.id}] :
          pr \in {listActiveConflictPairs(items)[k] :
                    k \in 1..Len(listActiveConflictPairs(items))}}

auditMemory(file, today) ==
  LET rd == readMemoryItems(file)
  IN  [items |-> sortItems(rd.items), issues |-> runAudit(rd.items, rd.issues, today)]

\* a verdict that leaves conflicts out of the severe codes
auditExitCode_ConflictNotSevere(issues) ==
  IF \E i \in issues : i.code \in {"schema", "duplicate-id", "no-source"}
  THEN 2
  ELSE IF \E i \in issues : i.code = "stale" THEN 1 ELSE 0

auditExitCode(issues) ==
  IF \E i \in issues : i.code \in {"schema", "duplicate-id", "no-source", "conflict"}
  THEN 2
  ELSE IF \E i \in issues : i.code = "stale" THEN 1 ELSE 0

\* ------------------------------------------------------- memory-status-lib
emptyBuckets == [active |-> <<>>, pending |-> <<>>, deprecated |-> <<>>]

\* cloneBuckets copies every item; records are values, so the copy is equal
cloneBuckets(input) == input

\* (variant) relabelling an item also moves its `updated` day on
SetStatus_Stamps(items, status) ==
  [i \in 1..Len(items) |-> [items[i] EXCEPT !.status = status, !.updated = @ + 1]]

\* item.status = status for every item read from the bucket's file
SetStatus(items, status) ==
  [i \in 1..Len(items) |-> [items[i] EXCEPT !.status = status]]

\* loadStatusBuckets: each existing bucket file's valid records, relabelled
\* with the bucket's status; a missing bucket file is an empty bucket
loadStatusBuckets(disk) ==
  [st \in Statuses |->
     IF disk[st].exists THEN SetStatus(readMemoryItems(disk[st]).items, st) ELSE <<>>]

\* one entry of listConflicts
ConflictEntry(pair) ==
  [pair_id |-> conflictPairId(IdText(pair.left.id), IdText(pair.right.id)),
   topic |-> pair.left.topic, key |-> pair.left.key,
   left |-> pair.left, right |-> pair.right]

\* toSorted by pair_id.localeCompare, a stable sort: an entry goes after
\* the entries whose pair id is not greater
InsertByPairId(s, x) ==
  LET n == Cardinality({i \in 1..Len(s) : localeCompare(s[i].pair_id, x.pair_id) <= 0})
  IN  SubSeq(s, 1, n) \o <<x>> \o SubSeq(s, n + 1, Len(s))

RECURSIVE sortByPairId(_)
sortByPairId(entries) ==
  IF entries = <<>> THEN <<>>
  ELSE InsertByPairId(sortByPairId(SubSeq(entries, 1, Len(entries) - 1)),
                      entries[Len(entries)])

\* (variant) the entries are left in the order of the loops
listConflicts_Unsorted(items) ==
  LET pairs == listUnresolvedConflictPairs(items)
  IN  [k \in 1..Len(pairs) |-> ConflictEntry(pairs[k])]

\* listUnresolvedConflictPairs(items).map(entry).toSorted(by pair_id)
listConflicts(items) ==
  LET pairs == listUnresolvedConflictPairs(items)
  IN  sortByPairId([k \in 1..Len(pairs) |-> ConflictEntry(pairs[k])])

\* what ensureStatusBuckets saves: the loaded buckets when a bucket file
\* exists, else the canonical file's items partitioned by status
ensureStatusBuckets(disk) ==
  IF \E st \in Statuses : disk[st].exists
  THEN loadStatusBuckets(disk)
  ELSE LET seed == readMemoryItems(disk[CanonicalFile]).items
       IN  [st \in Statuses |-> SelectSeq(seed, LAMBDA it : it.status = st)]

flattenBuckets(buckets) ==
  sortItems(buckets.active \o buckets.pending \o buckets.deprecated)

countsByStatus(buckets) ==
  [active |-> Len(buckets.active), pending |-> Len(buckets.pending),
   deprecated |-> Len(buckets.deprecated)]

\* index of the first item with this id in a bucket, 0 when there is none
IndexOfId(items, id) ==
  IF \E i \in 1..Len(items) : items[i].id = id
  THEN CHOOSE i \in 1..Len(items) :
         items[i].id = id /\ \A k \in 1..(i - 1) : items[k].id # id
  ELSE 0

NotLocated == [status |-> "none", index |-> 0]

\* findItemStatus: the first bucket in STATUS_ORDER that holds the id
findItemStatus(buckets, id) ==
  IF \E n \in 1..3 : IndexOfId(buckets[STATUS_ORDER[n]], id) > 0
  THEN LET n == CHOOSE k \in 1..3 :
                  /\ IndexOfId(buckets[STATUS_ORDER[k]], id) > 0
                  /\ \A m \in 1..(k - 1) : IndexOfId(buckets[STATUS_ORDER[m]], id) = 0
       IN  [status |-> STATUS_ORDER[n], index |-> IndexOfId(buckets[STATUS_ORDER[n]], id)]
  ELSE NotLocated

\* splice(index) without a delete count: everything from index on goes
RemoveAt_NoCount(items, index) == SubSeq(items, 1, index - 1)

\* splice(index, 1)
RemoveAt(items, index) ==
  SubSeq(items, 1, index - 1) \o SubSeq(items, index + 1, Len(items))

\* the runtime projection: the active items, ordered by id (statusSection)
RECURSIVE sortById(_)
sortById(items) ==
  IF items = <<>> THEN <<>>
  ELSE LET rest == sortById(SubSeq(items, 1, Len(items) - 1))
           x    == items[Len(items)]
           n    == Cardinality({i \in 1..Len(rest) : rest[i].id <= x.id})
       IN  SubSeq(rest, 1, n) \o <<x>> \o SubSeq(rest, n + 1, Len(rest))

buildMemoryMarkdown(items) ==
  FileOf(sortById(SelectSeq(items, LAMBDA it : it.status = "active")))

\* ------------------------------------------------------------------ state
VARIABLES
  files,      \* the files on disk: three buckets, canonical file, projection
  lockFile,   \* <memoryRoot>/locks/status-store.lock
  pc,         \* each caller's position in its call
  op,         \* which operation the caller's task is
  args,       \* the operation's parameters
  buf,        \* ensureStatusBuckets: the buckets it is saving
  current,    \* the task's loaded and mutated buckets
  previous,   \* the task's snapshot for rollback
  wi,         \* saveStatusBuckets: index in STATUS_ORDER of the next write
  err,        \* the error the call is failing with ("" for none)
  res,        \* the value the call returned
  waited,     \* Date.now() - startedAt >= timeoutMs, as the caller last saw it
  sawStale,   \* readLockAgeMs(...) > staleMs, as the caller last saw it
  contended,  \* the caller's open() has hit EEXIST in this call
  list,       \* prune / import: the item list the script is about to write
  pre,        \* the files as they were when the caller's task started
  input,      \* the arguments of the pure function a caller applies
  output      \* whether it has been applied, and what it returned

vars == <<files, lockFile, pc, op, args, buf, current, previous, wi, err, res,
          waited, sawStale, contended, list, pre, input, output>>

NoLock   == [exists |-> FALSE, pid |-> 0, stale |-> FALSE]
NoItem   == Item(0, 0, 0, "none", 0, 0)
NoCounts == [active |-> 0, pending |-> 0, deprecated |-> 0]
NoArgs   == [id |-> 0, to |-> "none", leftId |-> 0, rightId |-> 0,
             mergedValue |-> 0, keepId |-> 0]
NoRes    == [from |-> "none", to |-> "none", item |-> NoItem, counts |-> NoCounts,
             mergedId |-> 0, deprecatedId |-> 0, pairId |-> <<>>]

\* the files a store with these buckets has after a completed operation
DiskOf(buckets) ==
  [f \in FileNames |->
     IF f \in Statuses THEN writeMemoryItems(buckets[f])
     ELSE IF f = CanonicalFile THEN writeMemoryItems(flattenBuckets(buckets))
     ELSE buildMemoryMarkdown(flattenBuckets(buckets))]

\* a store that has only its canonical file (no status directory yet)
FreshDiskOf(rows) ==
  [f \in FileNames |-> IF f = CanonicalFile THEN FileOf(rows) ELSE AbsentFile]

BucketsOf(rows) == [st \in Statuses |-> SelectSeq(rows, LAMBDA it : it.status = st)]

\* a record without provenance, as a hand-edited bucket file may hold
NoSourceRecord == [Item(3, 2, 1, "pending", 1, 20) EXCEPT !.source = ""]

InitStores ==
  { <<Item(1, 1, 1, "pending", 1, 20)>>,
    <<Item(1, 2, 1, "active", 1, 5), Item(2, 1, 1, "pending", 1, 20),
      Item(3, 1, 2, "deprecated", 1, 20)>>,
    <<Item(1, 1, 1, "active", 1, 20), Item(2, 1, 2, "pending", 1, 20),
      Item(3, 1, 1, "active", 1, 20)>> }

FreshStores ==
  { <<Item(1, 1, 1, "active", 1, 20), Item(2, 1, 2, "active", 1, 20)>>,
    <<Item(1, 1, 1, "active", 1, 20), Item(1, 1, 1, "pending", 1, 20)>> }

\* an existing store whose pending file also holds the record without source
HandEditedDisk ==
  LET rows == <<Item(1, 1, 1, "active", 1, 20), Item(2, 1, 2, "pending", 1, 20)>>
      d    == DiskOf(BucketsOf(rows))
  IN  [d EXCEPT !["pending"] = FileOf(d["pending"].rows \o <<NoSourceRecord>>)]

InitDisks ==
  {DiskOf(BucketsOf(rows)) : rows \in InitStores}
  \cup {FreshDiskOf(rows) : rows \in FreshStores}
  \cup {HandEditedDisk}

\* no pure function has been applied
NotApplied == [applied |-> FALSE, value |-> <<>>]

InitTasks ==
  /\ pc = [p \in Procs |-> "idle"]
  /\ op = [p \in Procs |-> "none"]
  /\ args = [p \in Procs |-> NoArgs]
  /\ buf = [p \in Procs |-> emptyBuckets]
  /\ current = [p \in Procs |-> emptyBuckets]
  /\ previous = [p \in Procs |-> emptyBuckets]
  /\ wi = [p \in Procs |-> 0]
  /\ err = [p \in Procs |-> ""]
  /\ res = [p \in Procs |-> NoRes]
  /\ waited = [p \in Procs |-> FALSE]
  /\ sawStale = [p \in Procs |-> FALSE]
  /\ contended = [p \in Procs |-> FALSE]
  /\ list = [p \in Procs |-> <<>>]
  /\ pre = [p \in Procs |-> files]

InitLocals ==
  /\ InitTasks
  /\ input = <<>>
  /\ output = NotApplied

Init ==
  /\ files \in InitDisks
  /\ lockFile = NoLock
  /\ InitLocals

\* ----------------------------------------------------------- withFileLock
taskVars == <<op, args, buf, current, previous, wi, res, list, pre, input, output>>

\* a caller enters withFileLock
Call(p) ==
  /\ pc[p] = "idle"
  /\ pc' = [pc EXCEPT ![p] = "open"]
  /\ UNCHANGED <<files, lockFile, err, waited, sawStale, contended, taskVars>>

\* open(lockPath, "w"): creates or truncates the file, never EEXIST
Open_NotExclusive(p) ==
  /\ pc[p] = "open"
  /\ lockFile' = [exists |-> TRUE, pid |-> p, stale |-> FALSE]
  /\ pc' = [pc EXCEPT ![p] = "payload"]
  /\ UNCHANGED <<files, err, waited, sawStale, contended, taskVars>>

\* open(lockPath, "wx"): creates the file, or fails with EEXIST
Open(p) ==
  /\ pc[p] = "open"
  /\ IF lockFile.exists
     THEN /\ pc' = [pc EXCEPT ![p] = "stat"]
          /\ contended' = [contended EXCEPT ![p] = TRUE]
          /\ UNCHANGED lockFile
     ELSE /\ lockFile' = [exists |-> TRUE, pid |-> p, stale |-> FALSE]
          /\ pc' = [pc EXCEPT ![p] = "payload"]
          /\ UNCHANGED contended
  /\ UNCHANGED <<files, err, waited, sawStale, taskVars>>

\* handle.writeFile(payload): the holder records pid and acquired_at; the
\* write renews the modification time of the file the handle is open on
WritePayload(p) ==
  /\ pc[p] = "payload"
  /\ lockFile' = IF lockFile.exists /\ lockFile.pid = p
                 THEN [lockFile EXCEPT !.stale = FALSE] ELSE lockFile
  /\ pc' = [pc EXCEPT ![p] = "locked"]
  /\ UNCHANGED <<files, err, waited, sawStale, contended, taskVars>>

\* readLockAgeMs after EEXIST: null (file gone) counts as not stale
Stat(p) ==
  /\ pc[p] = "stat"
  /\ sawStale' = [sawStale EXCEPT ![p] = lockFile.exists /\ lockFile.stale]
  /\ pc' = [pc EXCEPT ![p] = IF lockFile.exists /\ lockFile.stale THEN "unlink" ELSE "check"]
  /\ UNCHANGED <<files, lockFile, err, waited, contended, taskVars>>

\* a lock path that unlink cannot remove (a directory at the path, or a
\* locks directory the process may not write): it has no holder
Undeletable == [exists |-> TRUE, pid |-> -1, stale |-> TRUE]

\* ageMs > staleMs: unlink(lockPath) whatever file is there now, its failure
\* swallowed by .catch(() => {}), and `continue`: the next round at once
Reclaim(p) ==
  /\ pc[p] = "unlink"
  /\ lockFile' = IF lockFile = Undeletable THEN lockFile ELSE NoLock
  /\ pc' = [pc EXCEPT ![p] = "open"]
  /\ UNCHANGED <<files, err, waited, sawStale, contended, taskVars>>

\* the caller's elapsed time passes timeoutMs
ClockPassesTimeout(p) ==
  /\ pc[p] = "check"
  /\ ~waited[p]
  /\ waited' = [waited EXCEPT ![p] = TRUE]
  /\ UNCHANGED <<files, lockFile, pc, err, sawStale, contended, taskVars>>

\* not timed out: sleep(retryMs), then the next round of the loop
Retry(p) ==
  /\ pc[p] = "check"
  /\ ~waited[p]
  /\ pc' = [pc EXCEPT ![p] = "open"]
  /\ UNCHANGED <<files, lockFile, err, waited, sawStale, contended, taskVars>>

\* (variant) a caller that times out removes the lock file on its way out
Timeout_Unlinks(p) ==
  /\ pc[p] = "check"
  /\ waited[p]
  /\ pc' = [pc EXCEPT ![p] = "failed"]
  /\ err' = [err EXCEPT ![p] = "timeout"]
  /\ lockFile' = NoLock
  /\ UNCHANGED <<files, waited, sawStale, contended, taskVars>>

\* Date.now() - startedAt >= timeoutMs: "Timeout acquiring lock"
Timeout(p) ==
  /\ pc[p] = "check"
  /\ waited[p]
  /\ pc' = [pc EXCEPT ![p] = "failed"]
  /\ err' = [err EXCEPT ![p] = "timeout"]
  /\ UNCHANGED <<files, lockFile, waited, sawStale, contended, taskVars>>

\* finally: handle.close(), unlink(lockPath); init then recounts unlocked.
\* A task error passes through the outer catch (532-550): it is rethrown
\* unless its code is EEXIST, which the catch takes for a held lock
Release(p) ==
  /\ pc[p] = "release"
  /\ lockFile' = NoLock
  /\ pc' = [pc EXCEPT ![p] = IF err[p] = "EEXIST" THEN "stat"
                             ELSE IF err[p] # "" THEN "failed"
                             ELSE IF op[p] = "init" THEN "recount" ELSE "done"]
  /\ UNCHANGED <<files, err, waited, sawStale, contended, taskVars>>

\* ------------------------------------------------ the Status Store's tasks
\* The task closure reads its parameters only once it runs, so the model
\* draws them when the task starts.

\* applyStatusChange's task starts (params.id, params.to)
StartStatusChange(p) ==
  /\ pc[p] = "locked"
  /\ \E id \in Ids, to \in Statuses :
       args' = [args EXCEPT ![p] = [NoArgs EXCEPT !.id = id, !.to = to]]
  /\ op' = [op EXCEPT ![p] = "changeStatus"]
  /\ pc' = [pc EXCEPT ![p] = "ensure"]
  /\ UNCHANGED <<files, lockFile, buf, current, previous, wi, err, res,
                 waited, sawStale, contended, list,
                 input, output>>
  /\ pre' = [pre EXCEPT ![p] = files]

\* applyConflictMerge's task starts (leftId, rightId, mergedValue, keepId?);
\* keepId is undefined (0, which means leftId) or an id other than leftId
StartConflictMerge(p) ==
  /\ pc[p] = "locked"
  /\ \E l \in Ids, r \in Ids, v \in Values : \E k \in {0} \cup (Ids \ {l}) :
       args' = [args EXCEPT ![p] = [NoArgs EXCEPT !.leftId = l, !.rightId = r,
                                                  !.mergedValue = v, !.keepId = k]]
  /\ op' = [op EXCEPT ![p] = "mergeConflict"]
  /\ pc' = [pc EXCEPT ![p] = "ensure"]
  /\ UNCHANGED <<files, lockFile, buf, current, previous, wi, err, res,
                 waited, sawStale, contended, list,
                 input, output>>
  /\ pre' = [pre EXCEPT ![p] = files]

\* initializeStatusStore's task starts
StartInit(p) ==
  /\ pc[p] = "locked"
  /\ op' = [op EXCEPT ![p] = "init"]
  /\ pc' = [pc EXCEPT ![p] = "ensure"]
  /\ UNCHANGED <<files, lockFile, args, buf, current, previous, wi, err, res,
                 waited, sawStale, contended, list,
                 input, output>>
  /\ pre' = [pre EXCEPT ![p] = files]

\* ensureStatusBuckets up to its save: existsSync, load or seed
Ensure(p) ==
  /\ pc[p] = "ensure"
  /\ buf' = [buf EXCEPT ![p] = ensureStatusBuckets(files)]
  /\ wi' = [wi EXCEPT ![p] = 1]
  /\ pc' = [pc EXCEPT ![p] = "ensureSave"]
  /\ UNCHANGED <<files, lockFile, op, args, current, previous, err, res,
                 waited, sawStale, contended, list, pre,
                 input, output>>

\* saveStatusBuckets: one writeMemoryItems per step, in STATUS_ORDER
SaveStep(p, buckets, nextPc) ==
  /\ files' = [files EXCEPT ![STATUS_ORDER[wi[p]]] =
                              writeMemoryItems(buckets[STATUS_ORDER[wi[p]]])]
  /\ IF wi[p] < 3
     THEN /\ wi' = [wi EXCEPT ![p] = wi[p] + 1]
          /\ UNCHANGED pc
     ELSE /\ wi' = [wi EXCEPT ![p] = 0]
          /\ pc' = [pc EXCEPT ![p] = nextPc]

\* ensureStatusBuckets' saveStatusBuckets
EnsureSave(p) ==
  /\ pc[p] = "ensureSave"
  /\ SaveStep(p, buf[p], IF op[p] = "dashboard" THEN "done" ELSE "load")
  /\ UNCHANGED <<lockFile, op, args, buf, current, previous, err, res,
                 waited, sawStale, contended, list, pre,
                 input, output>>

\* a move that forgets to stamp `updated`
StatusChanged_NoStamp(buckets, located, to, today) ==
  LET item  == buckets[located.status][located.index]
      moved == [item EXCEPT !.status = to]
      taken == [buckets EXCEPT ![located.status] = RemoveAt(@, located.index)]
  IN  [taken EXCEPT ![to] = Append(@, moved)]

\* applyStatusChange lines 309-317: the move of the located item
StatusChanged(buckets, located, to, today) ==
  LET item  == buckets[located.status][located.index]
      moved == [item EXCEPT !.status = to, !.updated = today]
      taken == [buckets EXCEPT ![located.status] = RemoveAt(@, located.index)]
  IN  [taken EXCEPT ![to] = Append(@, moved)]

\* a load that moves and stamps the item whatever its status is
LoadStatusChange_AlwaysMoves(p) ==
  /\ pc[p] = "load"
  /\ op[p] = "changeStatus"
  /\ LET loaded  == loadStatusBuckets(files)
         located == findItemStatus(loaded, args[p].id)
     IN  /\ previous' = [previous EXCEPT ![p] = cloneBuckets(loaded)]
         /\ IF located = NotLocated
            THEN /\ current' = [current EXCEPT ![p] = loaded]
                 /\ err' = [err EXCEPT ![p] = "notfound"]
                 /\ pc' = [pc EXCEPT ![p] = "release"]
                 /\ UNCHANGED wi
            ELSE /\ current' = [current EXCEPT ![p] =
                      [[loaded EXCEPT ![located.status] = RemoveAt(@, located.index)]
                         EXCEPT ![args[p].to] =
                           Append(@, [loaded[located.status][located.index]
                                        EXCEPT !.status = args[p].to, !.updated = Today])]]
                 /\ wi' = [wi EXCEPT ![p] = 1]
                 /\ pc' = [pc EXCEPT ![p] = "save"]
                 /\ UNCHANGED err
  /\ UNCHANGED <<files, lockFile, op, args, buf, res, waited, sawStale, contended, list, pre,
                 input, output>>

\* applyStatusChange lines 302-317, as an action
LoadStatusChange(p) ==
  /\ pc[p] = "load"
  /\ op[p] = "changeStatus"
  /\ LET loaded  == loadStatusBuckets(files)
         located == findItemStatus(loaded, args[p].id)
     IN  /\ previous' = [previous EXCEPT ![p] = cloneBuckets(loaded)]
         /\ IF located = NotLocated
            THEN /\ current' = [current EXCEPT ![p] = loaded]
                 /\ err' = [err EXCEPT ![p] = "notfound"]
                 /\ pc' = [pc EXCEPT ![p] = "release"]
                 /\ UNCHANGED wi
            ELSE /\ current' = [current EXCEPT ![p] =
                      IF located.status # args[p].to
                      THEN StatusChanged(loaded, located, args[p].to, Today)
                      ELSE loaded]
                 /\ wi' = [wi EXCEPT ![p] = 1]
                 /\ pc' = [pc EXCEPT ![p] = "save"]
                 /\ UNCHANGED err
  /\ UNCHANGED <<files, lockFile, op, args, buf, res, waited, sawStale, contended, list, pre,
                 input, output>>

\* applyConflictMerge lines 372-393: the error the preconditions raise
MergeError(loaded, a) ==
  LET l == findItemStatus(loaded, a.leftId)
      r == findItemStatus(loaded, a.rightId)
      k == IF a.keepId = 0 THEN a.leftId ELSE a.keepId
  IN  IF l = NotLocated \/ r = NotLocated THEN "notfound"
      ELSE IF a.leftId = a.rightId THEN "same-id"
      ELSE IF ~isUnresolvedConflictPair(loaded[l.status][l.index], loaded[r.status][r.index])
           THEN "not-a-conflict"
      ELSE IF k # a.leftId /\ k # a.rightId THEN "keep-id"
      ELSE ""

\* removeItemById
RemoveItemById(buckets, id) ==
  LET located == findItemStatus(buckets, id)
  IN  [buckets EXCEPT ![located.status] = RemoveAt(@, located.index)]

\* a merge that writes mergedValue into the deprecated item as well
ConflictMerged_BothValues(buckets, a, today) ==
  LET keepId   == IF a.keepId = 0 THEN a.leftId ELSE a.keepId
      otherId  == IF keepId = a.leftId THEN a.rightId ELSE a.leftId
      k        == findItemStatus(buckets, keepId)
      o        == findItemStatus(buckets, otherId)
      keepOriginal  == buckets[k.status][k.index]
      otherOriginal == buckets[o.status][o.index]
      pairId   == conflictPairId(IdText(a.leftId), IdText(a.rightId))
      merged   == [keepOriginal EXCEPT !.status = "active", !.value = a.mergedValue,
                                       !.updated = today,
                                       !.next = <<"Merged conflict", pairId, keepId>>]
      deprecatedOther ==
                  [otherOriginal EXCEPT !.status = "deprecated", !.value = a.mergedValue,
                                        !.updated = today,
                                        !.next = <<"Deprecated after conflict merge",
                                                   pairId, merged.id>>]
      removed  == RemoveItemById(RemoveItemById(buckets, keepId), otherId)
  IN  [removed EXCEPT !["active"] = Append(@, merged),
                      !["deprecated"] = Append(@, deprecatedOther)]

\* applyConflictMerge lines 387-423
ConflictMerged(buckets, a, today) ==
  LET keepId   == IF a.keepId = 0 THEN a.leftId ELSE a.keepId
      otherId  == IF keepId = a.leftId THEN a.rightId ELSE a.leftId
      k        == findItemStatus(buckets, keepId)
      o        == findItemStatus(buckets, otherId)
      keepOriginal  == buckets[k.status][k.index]
      otherOriginal == buckets[o.status][o.index]
      pairId   == conflictPairId(IdText(a.leftId), IdText(a.rightId))
      merged   == [keepOriginal EXCEPT !.status = "active", !.value = a.mergedValue,
                                       !.updated = today,
                                       !.next = <<"Merged conflict", pairId, keepId>>]
      deprecatedOther ==
                  [otherOriginal EXCEPT !.status = "deprecated", !.updated = today,
                                        !.next = <<"Deprecated after conflict merge",
                                                   pairId, merged.id>>]
      removed  == RemoveItemById(RemoveItemById(buckets, keepId), otherId)
  IN  [removed EXCEPT !["active"] = Append(@, merged),
                      !["deprecated"] = Append(@, deprecatedOther)]

LoadConflictMerge(p) ==
  /\ pc[p] = "load"
  /\ op[p] = "mergeConflict"
  /\ LET loaded == loadStatusBuckets(files)
         e      == MergeError(loaded, args[p])
     IN  /\ previous' = [previous EXCEPT ![p] = cloneBuckets(loaded)]
         /\ IF e # ""
            THEN /\ current' = [current EXCEPT ![p] = loaded]
                 /\ err' = [err EXCEPT ![p] = e]
                 /\ pc' = [pc EXCEPT ![p] = "release"]
                 /\ UNCHANGED wi
            ELSE /\ current' = [current EXCEPT ![p] = ConflictMerged(loaded, args[p], Today)]
                 /\ wi' = [wi EXCEPT ![p] = 1]
                 /\ pc' = [pc EXCEPT ![p] = "save"]
                 /\ UNCHANGED err
  /\ UNCHANGED <<files, lockFile, op, args, buf, res, waited, sawStale, contended, list, pre,
                 input, output>>

\* initializeStatusStore line 464
LoadInit(p) ==
  /\ pc[p] = "load"
  /\ op[p] = "init"
  /\ current' = [current EXCEPT ![p] = loadStatusBuckets(files)]
  /\ wi' = [wi EXCEPT ![p] = 1]
  /\ pc' = [pc EXCEPT ![p] = "save"]
  /\ UNCHANGED <<files, lockFile, op, args, buf, previous, err, res,
                 waited, sawStale, contended, list, pre,
                 input, output>>

\* saveStatusBuckets(paths, current)
CommitSave(p) ==
  /\ pc[p] = "save"
  /\ SaveStep(p, current[p], "rebuild")
  /\ UNCHANGED <<lockFile, op, args, buf, current, previous, err, res,
                 waited, sawStale, contended, list, pre,
                 input, output>>

\* rebuildUnifiedMemory(paths, current); init does not audit
Rebuild(p) ==
  /\ pc[p] = "rebuild"
  /\ files' = [files EXCEPT ![CanonicalFile] = writeMemoryItems(flattenBuckets(current[p]))]
  /\ pc' = [pc EXCEPT ![p] = IF op[p] = "init" THEN "render" ELSE "audit"]
  /\ UNCHANGED <<lockFile, op, args, buf, current, previous, wi, err, res,
                 waited, sawStale, contended, list, pre,
                 input, output>>

\* auditMemory(memoryPath, today); exit code 2 throws into the catch block
Audit(p) ==
  /\ pc[p] = "audit"
  /\ IF auditExitCode(auditMemory(files[CanonicalFile], Today).issues) = 2
     THEN /\ err' = [err EXCEPT ![p] = "audit"]
          /\ wi' = [wi EXCEPT ![p] = 1]
          /\ pc' = [pc EXCEPT ![p] = "rollback"]
     ELSE /\ pc' = [pc EXCEPT ![p] = "render"]
          /\ UNCHANGED <<err, wi>>
  /\ UNCHANGED <<files, lockFile, op, args, buf, current, previous, res,
                 waited, sawStale, contended, list, pre,
                 input, output>>

\* the value the task returns after the try block
ResultOf(p) ==
  IF op[p] = "changeStatus"
  THEN LET updated == findItemStatus(current[p], args[p].id)
       IN  [NoRes EXCEPT !.from = findItemStatus(previous[p], args[p].id).status,
                         !.to = args[p].to,
                         !.item = current[p][updated.status][updated.index],
                         !.counts = countsByStatus(current[p])]
  ELSE IF op[p] = "mergeConflict"
  THEN LET keepId == IF args[p].keepId = 0 THEN args[p].leftId ELSE args[p].keepId
       IN  [NoRes EXCEPT !.mergedId = keepId,
                         !.deprecatedId = IF keepId = args[p].leftId
                                          THEN args[p].rightId ELSE args[p].leftId,
                         !.counts = countsByStatus(current[p]),
                         !.pairId = conflictPairId(IdText(args[p].leftId),
                                                   IdText(args[p].rightId))]
  ELSE NoRes

\* renderRuntimeActiveMemory(paths, current), then the task returns
Render(p) ==
  /\ pc[p] = "render"
  /\ files' = [files EXCEPT ![RuntimeFile] = buildMemoryMarkdown(flattenBuckets(current[p]))]
  /\ res' = [res EXCEPT ![p] = ResultOf(p)]
  /\ pc' = [pc EXCEPT ![p] = "release"]
  /\ UNCHANGED <<lockFile, op, args, buf, current, previous, wi, err,
                 waited, sawStale, contended, list, pre,
                 input, output>>

\* catch: saveStatusBuckets(paths, previous)
RollbackSave(p) ==
  /\ pc[p] = "rollback"
  /\ SaveStep(p, previous[p], "rollbackRebuild")
  /\ UNCHANGED <<lockFile, op, args, buf, current, previous, err, res,
                 waited, sawStale, contended, list, pre,
                 input, output>>

\* (variant) the catch block does not rebuild the canonical file
RollbackRebuild_Skips(p) ==
  /\ pc[p] = "rollbackRebuild"
  /\ pc' = [pc EXCEPT ![p] = "rollbackRender"]
  /\ UNCHANGED <<files, lockFile, op, args, buf, current, previous, wi, err, res,
                 waited, sawStale, contended, list, pre,
                 input, output>>

\* catch: rebuildUnifiedMemory(paths, previous)
RollbackRebuild(p) ==
  /\ pc[p] = "rollbackRebuild"
  /\ files' = [files EXCEPT ![CanonicalFile] = writeMemoryItems(flattenBuckets(previous[p]))]
  /\ pc' = [pc EXCEPT ![p] = "rollbackRender"]
  /\ UNCHANGED <<lockFile, op, args, buf, current, previous, wi, err, res,
                 waited, sawStale, contended, list, pre,
                 input, output>>

\* catch: renderRuntimeActiveMemory(paths, previous); throw error
RollbackRender(p) ==
  /\ pc[p] = "rollbackRender"
  /\ files' = [files EXCEPT ![RuntimeFile] = buildMemoryMarkdown(flattenBuckets(previous[p]))]
  /\ pc' = [pc EXCEPT ![p] = "release"]
  /\ UNCHANGED <<lockFile, op, args, buf, current, previous, wi, err, res,
                 waited, sawStale, contended, list, pre,
                 input, output>>

\* initializeStatusStore lines 470-474: counts of a load after the lock
Recount(p) ==
  /\ pc[p] = "recount"
  /\ res' = [res EXCEPT ![p] = [NoRes EXCEPT !.counts = countsByStatus(loadStatusBuckets(files))]]
  /\ pc' = [pc EXCEPT ![p] = "done"]
  /\ UNCHANGED <<files, lockFile, op, args, buf, current, previous, wi, err,
                 waited, sawStale, contended, list, pre,
                 input, output>>

Next ==
  \E p \in Procs :
    \/ Call(p) \/ Open(p) \/ WritePayload(p) \/ Stat(p)
    \/ ClockPassesTimeout(p) \/ Retry(p) \/ Timeout(p) \/ Release(p)
    \/ StartStatusChange(p) \/ StartConflictMerge(p) \/ StartInit(p)
    \/ Ensure(p) \/ EnsureSave(p)
    \/ LoadStatusChange(p) \/ LoadConflictMerge(p) \/ LoadInit(p)
    \/ CommitSave(p) \/ Rebuild(p) \/ Audit(p) \/ Render(p)
    \/ RollbackSave(p) \/ RollbackRebuild(p) \/ RollbackRender(p)
    \/ Recount(p)

\* Store calls whose tasks end well inside staleMs, no holder crashes
Spec == Init /\ [][Next]_vars

\* ------------------------------------------ callers of changeStatus only
\* every caller calls changeStatus: the case of two concurrent status changes
NextChanges ==
  \E p \in Procs :
    \/ Call(p) \/ Open(p) \/ WritePayload(p) \/ Stat(p)
    \/ ClockPassesTimeout(p) \/ Retry(p) \/ Timeout(p) \/ Release(p)
    \/ StartStatusChange(p) \/ Ensure(p) \/ EnsureSave(p) \/ LoadStatusChange(p)
    \/ CommitSave(p) \/ Rebuild(p) \/ Audit(p) \/ Render(p)
    \/ RollbackSave(p) \/ RollbackRebuild(p) \/ RollbackRender(p)

\* the stores whose bucket files are in place
InitChanges ==
  /\ files \in {DiskOf(BucketsOf(rows)) : rows \in InitStores}
  /\ lockFile = NoLock
  /\ InitLocals

SpecChanges == InitChanges /\ [][NextChanges]_vars

\* ------------------------------------------------- the lock manager alone
\* withFileLock around a task that only takes time, with the clock free to
\* carry a lock file's age past staleMs, and a lock file that a crashed
\* holder (pid 0) may have left behind.

\* task() starts
StartTask(p) ==
  /\ pc[p] = "locked"
  /\ op' = [op EXCEPT ![p] = "task"]
  /\ pc' = [pc EXCEPT ![p] = "task"]
  /\ UNCHANGED <<files, lockFile, args, buf, current, previous, wi, err, res,
                 waited, sawStale, contended, list, pre,
                 input, output>>

\* task() returns: the call has its result and no error in hand
FinishTask(p) ==
  /\ pc[p] = "task"
  /\ pc' = [pc EXCEPT ![p] = "release"]
  /\ err' = [err EXCEPT ![p] = ""]
  /\ UNCHANGED <<files, lockFile, waited, sawStale, contended, taskVars>>

\* Date.now() - mtimeMs of the lock file grows past staleMs
AgeLock ==
  /\ lockFile.exists
  /\ ~lockFile.stale
  /\ lockFile' = [lockFile EXCEPT !.stale = TRUE]
  /\ UNCHANGED <<files, pc, err, waited, sawStale, contended, taskVars>>

InitLock ==
  /\ files = DiskOf(emptyBuckets)
  /\ lockFile \in {NoLock, [exists |-> TRUE, pid |-> 0, stale |-> FALSE]}
  /\ InitLocals

NextLock ==
  \/ AgeLock
  \/ \E p \in Procs :
       \/ Call(p) \/ Open(p) \/ WritePayload(p) \/ Stat(p) \/ Reclaim(p)
       \/ ClockPassesTimeout(p) \/ Retry(p) \/ Timeout(p)
       \/ StartTask(p) \/ FinishTask(p) \/ Release(p)

SpecLock == InitLock /\ [][NextLock]_vars

\* -------------------------------------- the lock manager when steps fail
\* handle.writeFile(payload) rejects: the outer catch closes the handle and
\* rethrows the error, which is not EEXIST; nothing unlinks the lock file
PayloadFails(p) ==
  /\ pc[p] = "payload"
  /\ pc' = [pc EXCEPT ![p] = "failed"]
  /\ err' = [err EXCEPT ![p] = "payload"]
  /\ UNCHANGED <<files, lockFile, waited, sawStale, contended, taskVars>>

\* task() rejects: the finally block runs, then the error is rethrown
TaskThrows(p) ==
  /\ pc[p] = "task"
  /\ pc' = [pc EXCEPT ![p] = "release"]
  /\ err' = [err EXCEPT ![p] = "task"]
  /\ UNCHANGED <<files, lockFile, waited, sawStale, contended, taskVars>>

\* task() rejects with a filesystem error whose code is EEXIST (a mkdir or
\* an exclusive open inside the task)
TaskThrowsEEXIST(p) ==
  /\ pc[p] = "task"
  /\ pc' = [pc EXCEPT ![p] = "release"]
  /\ err' = [err EXCEPT ![p] = "EEXIST"]
  /\ UNCHANGED <<files, lockFile, waited, sawStale, contended, taskVars>>

NextLockFaults ==
  \/ AgeLock
  \/ \E p \in Procs :
       \/ Call(p) \/ Open(p) \/ WritePayload(p) \/ PayloadFails(p) \/ Stat(p)
       \/ Reclaim(p) \/ ClockPassesTimeout(p) \/ Retry(p) \/ Timeout(p)
       \/ StartTask(p) \/ FinishTask(p) \/ TaskThrows(p)
       \/ TaskThrowsEEXIST(p) \/ Release(p)

SpecLockFaults == InitLock /\ [][NextLockFaults]_vars

\* ------------------------------------------- writers that take no lock
\* memory-dashboard-web main: ensureStatusBuckets(paths) at start-up
DashboardStart(p) ==
  /\ pc[p] = "idle"
  /\ op' = [op EXCEPT ![p] = "dashboard"]
  /\ pc' = [pc EXCEPT ![p] = "ensure"]
  /\ pre' = [pre EXCEPT ![p] = files]
  /\ UNCHANGED <<files, lockFile, args, buf, current, previous, wi, err, res,
                 waited, sawStale, contended, list,
                 input, output>>

\* memory-prune main lines 76-88: audit the canonical file, choose `keep`
PruneAudit(p) ==
  /\ pc[p] = "idle"
  /\ op' = [op EXCEPT ![p] = "prune"]
  /\ LET summary == auditMemory(files[CanonicalFile], Today)
     IN  IF auditExitCode(summary.issues) = 2
         THEN /\ err' = [err EXCEPT ![p] = "audit"]
              /\ pc' = [pc EXCEPT ![p] = "failed"]
              /\ UNCHANGED list
         ELSE /\ list' = [list EXCEPT ![p] =
                   SelectSeq(summary.items,
                             LAMBDA it : ~(it.status = "deprecated" \/ isExpired(it, Today)))]
              /\ pc' = [pc EXCEPT ![p] = "pruneWrite"]
              /\ UNCHANGED err
  /\ pre' = [pre EXCEPT ![p] = files]
  /\ UNCHANGED <<files, lockFile, args, buf, current, previous, wi, res,
                 waited, sawStale, contended,
                 input, output>>

\* memory-prune main line 108 (--apply): writeMemoryItems(memoryPath, keep)
PruneWrite(p) ==
  /\ pc[p] = "pruneWrite"
  /\ files' = [files EXCEPT ![CanonicalFile] = writeMemoryItems(list[p])]
  /\ pc' = [pc EXCEPT ![p] = "done"]
  /\ UNCHANGED <<lockFile, err, waited, sawStale, contended, taskVars>>

\* nextIds: one past the largest existing id
NextId(existing) ==
  1 + (IF existing = <<>> THEN 0
       ELSE CHOOSE m \in {existing[i].id : i \in 1..Len(existing)} :
              \A i \in 1..Len(existing) : existing[i].id <= m)

LegacyTopic == 3    \* "legacy-memory-md" sorts behind the other topics
LegacyValue == 3    \* the bullet's text
ExpiresDays == 365

\* the item the import builds from one bullet of the legacy MEMORY.md
LegacyItem(existing) ==
  [Item(NextId(existing), LegacyTopic, LegacyValue, "pending", Today, Today + ExpiresDays)
     EXCEPT !.source = "memory/notes.md", !.updated = Today,
            !.next = <<"Review and promote to active if still valid">>]

\* memory-import-legacy-md main lines 225-262: existing items plus the
\* bullets whose topic|key|value is not in the canonical file yet
ImportRead(p) ==
  /\ pc[p] = "idle"
  /\ op' = [op EXCEPT ![p] = "import"]
  /\ LET existing == readMemoryItems(files[CanonicalFile]).items
         it       == LegacyItem(existing)
         known    == \E i \in 1..Len(existing) :
                       /\ existing[i].topic = it.topic
                       /\ existing[i].key = it.key
                       /\ existing[i].value = it.value
     IN  list' = [list EXCEPT ![p] = IF known THEN existing ELSE Append(existing, it)]
  /\ pc' = [pc EXCEPT ![p] = "importWrite"]
  /\ UNCHANGED <<files, lockFile, args, buf, current, previous, wi, err, res,
                 waited, sawStale, contended, pre,
                 input, output>>

\* memory-import-legacy-md main line 266 (--apply)
ImportWrite(p) ==
  /\ pc[p] = "importWrite"
  /\ files' = [files EXCEPT ![CanonicalFile] = writeMemoryItems(list[p])]
  /\ pc' = [pc EXCEPT ![p] = "done"]
  /\ UNCHANGED <<lockFile, err, waited, sawStale, contended, taskVars>>

\* init under the lock next to the scripts that write without it
NextWriters ==
  \E p \in Procs :
    \/ Call(p) \/ Open(p) \/ WritePayload(p) \/ Stat(p)
    \/ ClockPassesTimeout(p) \/ Retry(p) \/ Timeout(p) \/ Release(p)
    \/ StartInit(p) \/ Ensure(p) \/ EnsureSave(p) \/ LoadInit(p)
    \/ CommitSave(p) \/ Rebuild(p) \/ Render(p) \/ Recount(p)
    \/ DashboardStart(p)
    \/ PruneAudit(p) \/ PruneWrite(p)
    \/ ImportRead(p) \/ ImportWrite(p)

SpecWriters == Init /\ [][NextWriters]_vars

\* ------------------------------------------- an operation run twice over
\* Caller 1 runs init or ensureStatusBuckets on a store as it may be found,
\* hand-edited or half there; when it is done caller 2 runs the same again
\* and nothing else writes.
FoundRows ==
  { <<>>,
    <<Item(1, 1, 1, "active", 1, 20)>>,
    <<Item(2, 1, 2, "pending", 1, 20)>>,
    <<Item(2, 1, 1, "active", 1, 20), Item(1, 1, 2, "active", 1, 20)>>,
    <<NoSourceRecord>>,
    <<Item(1, 1, 1, "active", 1, 20), NoSourceRecord>>,
    <<[Item(3, 2, 1, "pending", 1, 20) EXCEPT !.status = " Pending"]>>,
    <<Item(1, 1, 1, "deprecated", 1, 20), Item(1, 1, 2, "deprecated", 1, 20)>> }

FoundFiles == {AbsentFile} \cup {FileOf(rows) : rows \in FoundRows}

FoundCanonicals ==
  {AbsentFile} \cup
  {FileOf(rows) : rows \in
     { <<Item(2, 1, 2, "pending", 1, 20), Item(1, 1, 1, "active", 1, 20)>>,
       <<Item(1, 1, 1, "active", 1, 20), NoSourceRecord>>,
       <<[Item(3, 2, 1, "pending", 1, 20) EXCEPT !.status = " Pending"],
         Item(3, 1, 1, "deprecated", 1, 20)>> }}

InitTwice ==
  /\ files \in {[f \in FileNames |->
                   IF f \in Statuses THEN b[f]
                   ELSE IF f = CanonicalFile THEN c ELSE AbsentFile] :
                  b \in [Statuses -> FoundFiles], c \in FoundCanonicals}
  /\ lockFile = NoLock
  /\ InitLocals

\* caller 2 waits for caller 1 to be done and repeats caller 1's operation
InTurn(p, o) == p = 1 \/ (pc[1] = "done" /\ op[1] = o)

NextTwice ==
  \E p \in Procs :
    \/ InTurn(p, "init") /\ Call(p)
    \/ InTurn(p, "dashboard") /\ DashboardStart(p)
    \/ Open(p) \/ WritePayload(p) \/ StartInit(p)
    \/ Ensure(p) \/ EnsureSave(p) \/ LoadInit(p)
    \/ CommitSave(p) \/ Rebuild(p) \/ Render(p) \/ Release(p) \/ Recount(p)

SpecTwice == InitTwice /\ [][NextTwice]_vars

\* ------------------------------------------- the conflict detector alone
\* A caller applies one function of memory-conflicts.ts to arguments of its
\* choice; the store is not touched.
storeVars == <<files, lockFile, pc, op, args, buf, current, previous, wi, err,
               res, waited, sawStale, contended, list, pre>>

InitIdle ==
  /\ files = DiskOf(emptyBuckets)
  /\ lockFile = NoLock
  /\ InitTasks
  /\ output = NotApplied

Applied(value) == [applied |-> TRUE, value |-> value]

\* a record with every field the detector reads chosen by the caller
ScopedItem(id, topic, key, value, status, env, service, region, from, exp) ==
  [Item(id, topic, value, status, from, exp) EXCEPT
     !.key = key,
     !.scope = [env |-> env, service |-> service, region |-> region]]

\* the first argument: its topic, key and value fixed, its window [2, 3]
LeftItems ==
  {ScopedItem(1, 1, 1, 1, st, env, sv, rg, 2, 3) :
     st \in Statuses, env \in {"all", "prod"}, sv \in {"", "api"}, rg \in {"", "eu"}}

\* the second argument: every field equal to or different from the first's
RightWindows == {<<1, 1>>, <<1, 2>>, <<3, 3>>, <<4, 5>>}
RightFacts == {<<t, k, v>> : t \in {1, 2}, k \in {1, 2}, v \in {1, 2}}
RightScopes ==
  {[env |-> env, service |-> sv, region |-> rg] :
     env \in {"all", "prod", "dev"}, sv \in {"", "api", "web"}, rg \in {"", "eu", "us"}}
RightItems ==
  {ScopedItem(2, f[1], f[2], f[3], st, sc.env, sc.service, sc.region, w[1], w[2]) :
     f \in RightFacts, st \in Statuses, sc \in RightScopes, w \in RightWindows}

\* the two modes of enumeration: active only, active and pending
ConflictModes == {{"active"}, {"active", "pending"}}

InitConflicts ==
  /\ InitIdle
  /\ input \in [a : LeftItems, b : RightItems, allowedStatuses : ConflictModes]

\* isConflictPair(a, b, {allowedStatuses}) and isConflictPair(b, a, ...)
ApplyIsConflictPair ==
  /\ ~output.applied
  /\ output' = Applied(
       [ab |-> isConflictPair(input.a, input.b, input.allowedStatuses),
        ba |-> isConflictPair(input.b, input.a, input.allowedStatuses)])
  /\ UNCHANGED <<storeVars, input>>

NextConflicts == ApplyIsConflictPair

SpecConflicts == InitConflicts /\ [][NextConflicts]_vars

\* ---------------------------------------------------- datesOverlap alone
\* ISO days of one year; the day m stands for the first day of month m
MaxDay == 9
Days == 1..MaxDay

InitOverlap ==
  /\ InitIdle
  /\ input \in [aStart : Days, aEnd : Days, bStart : Days, bEnd : Days]

ApplyDatesOverlap ==
  /\ ~output.applied
  /\ output' = Applied(datesOverlap(input.aStart, input.aEnd, input.bStart, input.bEnd))
  /\ UNCHANGED <<storeVars, input>>

NextOverlap == ApplyDatesOverlap

SpecOverlap == InitOverlap /\ [][NextOverlap]_vars

\* -------------------------------------------------- conflictPairId alone
\* Texts of one or two characters over "_" (0) and the digits 1..MaxDigit;
\* the well-formed ids (ID_PATTERN: a fixed length, digits only where ids
\* differ) are the two-digit ones.
MaxDigit == 2
IdTexts == {<<c>> : c \in 0..MaxDigit} \cup {<<c, d>> : c \in 0..MaxDigit, d \in 0..MaxDigit}
WellFormedIds == {<<c, d>> : c \in 1..MaxDigit, d \in 1..MaxDigit}

InitPairId ==
  /\ InitIdle
  /\ input \in [x : IdTexts, y : IdTexts, u : IdTexts, v : IdTexts]

\* the pair id of (x, y), of (y, x) and of a second pair (u, v)
ApplyConflictPairId ==
  /\ ~output.applied
  /\ output' = Applied([xy |-> conflictPairId(input.x, input.y),
                        yx |-> conflictPairId(input.y, input.x),
                        uv |-> conflictPairId(input.u, input.v)])
  /\ UNCHANGED <<storeVars, input>>

NextPairId == ApplyConflictPairId

SpecPairId == InitPairId /\ [][NextPairId]_vars

\* ---------------------------------------------------- listConflicts alone
\* lists of at most MaxItems records of one topic and key, in any order, an
\* id possibly more than once
MaxItems == 3
ListedItems ==
  {Item(id, 1, v, st, 1, 5) : id \in Ids, v \in 1..2, st \in Statuses}

InitList ==
  /\ InitIdle
  /\ input \in UNION {[1..n -> ListedItems] : n \in 0..MaxItems}

ApplyListConflicts ==
  /\ ~output.applied
  /\ output' = Applied(listConflicts(input))
  /\ UNCHANGED <<storeVars, input>>

NextList == ApplyListConflicts

SpecList == InitList /\ [][NextList]_vars

\* ---------------------------------------------------- auditExitCode alone
\* lists of at most MaxIssues issues, a code possibly more than once
MaxIssues == 3
AuditIssueCodes == {"schema", "duplicate-id", "no-source", "stale", "conflict"}
AuditIssues == {[code |-> c, ids |-> {}] : c \in AuditIssueCodes}

InitExit ==
  /\ InitIdle
  /\ input \in UNION {[1..n -> AuditIssues] : n \in 0..MaxIssues}

\* issues.some(...) looks at the issues the list holds, in no order
ApplyAuditExitCode ==
  /\ ~output.applied
  /\ output' = Applied(auditExitCode({input[k] : k \in 1..Len(input)}))
  /\ UNCHANGED <<storeVars, input>>

NextExit == ApplyAuditExitCode

SpecExit == InitExit /\ [][NextExit]_vars

\* --------------------------------------------------------- runAudit alone
\* lists of at most MaxAudited records of one topic and key that expire the
\* day before today, today or the day after, audited with no initial issue
MaxAudited == 2
AuditedItems ==
  {Item(id, 1, v, st, 1, exp) :
     id \in Ids, v \in 1..2, st \in Statuses, exp \in {Today - 1, Today, Today + 1}}

InitAudit ==
  /\ InitIdle
  /\ input \in UNION {[1..n -> AuditedItems] : n \in 0..MaxAudited}

ApplyRunAudit ==
  /\ ~output.applied
  /\ output' = Applied(runAudit(input, {}, Today))
  /\ UNCHANGED <<storeVars, input>>

NextAudit == ApplyRunAudit

SpecAudit == InitAudit /\ [][NextAudit]_vars

\* -------------------------------------------------- readMemoryItems alone
\* files of at most MaxRaw raw records: the id present or absent, the status
\* normal, in need of trimming and lowering, or unknown, the source valid
\* or not, the env normal, absent, in capitals or unknown, the window in
\* order or reversed
MaxRaw == 2
RawRecords ==
  {[Item(id, 1, 1, st, w[1], w[2]) EXCEPT !.source = src, !.scope.env = env] :
     id \in {0, 1}, st \in {"active", " Pending", "archived"},
     src \in {"docs/memory.md", "ftp://example.org/a"},
     env \in {"", "PROD", "qa"}, w \in {<<1, 5>>, <<5, 1>>}}

InitRead ==
  /\ InitIdle
  /\ input \in UNION {[1..n -> RawRecords] : n \in 0..MaxRaw}

\* the file read whole, and each of its records read as a file of its own
ApplyReadMemoryItems ==
  /\ ~output.applied
  /\ output' = Applied([whole |-> readMemoryItems(FileOf(input)),
                        alone |-> [k \in 1..Len(input) |->
                                     readMemoryItems(FileOf(<<input[k]>>))]])
  /\ UNCHANGED <<storeVars, input>>

NextRead == ApplyReadMemoryItems

SpecRead == InitRead /\ [][NextRead]_vars

\* ============================================================== properties
StoreOps == {"changeStatus", "mergeConflict"}

\* the ids in the rows of a file, and how often a bucket file lists an id
IdsOfRows(rows) == {rows[i].id : i \in 1..Len(rows)}
CountInFile(file, id) == Cardinality({i \in 1..Len(file.rows) : file.rows[i].id = id})
BucketCount(disk, id) ==
  CountInFile(disk["active"], id) + CountInFile(disk["pending"], id)
  + CountInFile(disk["deprecated"], id)

\* the verdict is severe, spelled out on an item list and a set of parse issues
HasDuplicateId(items) ==
  \E i, j \in 1..Len(items) : i # j /\ items[i].id = items[j].id
HasActiveConflict(items) ==
  \E i, j \in 1..Len(items) :
    /\ i # j
    /\ items[i].status = "active" /\ items[j].status = "active"
    /\ items[i].topic = items[j].topic /\ items[i].key = items[j].key
    /\ items[i].value # items[j].value
    /\ items[i].effective_from <= items[j].expires
    /\ items[j].effective_from <= items[i].expires
    /\ \/ items[i].scope.env = "all" \/ items[j].scope.env = "all"
       \/ items[i].scope.env = items[j].scope.env
HasBadRecord(file) ==
  \/ ~file.exists
  \/ \E i \in 1..Len(file.rows) :
       \/ file.rows[i].source \notin {"https://example.org/a", "docs/memory.md",
                                      "memory/notes.md", "src/a.ts"}
       \/ file.rows[i].effective_from > file.rows[i].expires
       \/ file.rows[i].status \notin Statuses
SevereFile(file) ==
  HasBadRecord(file) \/ HasDuplicateId(file.rows) \/ HasActiveConflict(file.rows)

\* C1: at most one caller's task runs at any moment on one lock path, also
\* when a holder outlives staleMs or waiters reclaim a stale lock together.
C1_MutualExclusion ==
  \A p, q \in Procs : p # q => ~(pc[p] = "task" /\ pc[q] = "task")

\* C2: when the audit after the mutation is severe, the call fails and the
\* three bucket files are what they were before the call, whatever they
\* held (checked for bucket files that all exist before the call, at the
\* moment the rollback has finished and the lock is still held).
C2_AtomicRollback ==
  \A p \in Procs :
    (/\ op[p] \in StoreOps /\ pc[p] = "release" /\ err[p] = "audit"
     /\ \A st \in Statuses : pre[p][st].exists)
      => \A st \in Statuses : files[st] = pre[p][st]

\* the ids a load of the bucket files returns, and how often
LoadedIds(disk) == IdsOfRows(flattenBuckets(loadStatusBuckets(disk)))
LoadedCount(disk, id) ==
  LET all == flattenBuckets(loadStatusBuckets(disk))
  IN  Cardinality({i \in 1..Len(all) : all[i].id = id})

\* C3: a call that starts from bucket files holding every id once keeps
\* every such id in exactly one bucket file at each of its steps, between
\* the three writes of a save included.
C3_OneBucketAtEveryStep ==
  \A p \in Procs :
    (/\ op[p] \in StoreOps
     /\ pc[p] \in {"ensureSave", "load", "save", "rebuild", "audit", "render",
                   "rollback", "rollbackRebuild", "rollbackRender", "release"}
     /\ \A id \in LoadedIds(pre[p]) : LoadedCount(pre[p], id) = 1)
      => \A id \in LoadedIds(pre[p]) : LoadedCount(files, id) = 1

\* C4: a mutated state is in the bucket files only after it has passed the
\* audit: at the moment the audit rejects the mutation of a store that
\* itself passes the audit, a load of the bucket files (which needs no lock)
\* still returns the state before the mutation.
C4_PersistAfterValidation ==
  \A p \in Procs :
    (/\ op[p] \in StoreOps /\ pc[p] = "rollback" /\ wi[p] = 1
     /\ ~SevereFile(FileOf(flattenBuckets(previous[p]))))
      => loadStatusBuckets(files) = previous[p]

\* the call of p has returned its result and p still holds the lock
Returned(p, o) == op[p] = o /\ pc[p] = "release" /\ err[p] = ""

\* C5: when changeStatus or mergeConflict returns successfully, the
\* canonical file on disk has no schema, duplicate-id or no-source issue and
\* no two conflicting active items.
C5_SuccessIsNotSevere ==
  \A p \in Procs :
    (Returned(p, "changeStatus") \/ Returned(p, "mergeConflict"))
      => ~SevereFile(files[CanonicalFile])

\* C5 witness: a changeStatus that moved an item has returned
C5_Witness ==
  \E p \in Procs :
    /\ Returned(p, "changeStatus")
    /\ res[p].from # res[p].to
    /\ Len(files[CanonicalFile].rows) >= 2

\* C6: init passes the audit gate too: when it has written the bucket files
\* and the canonical file, neither has a severe audit verdict.
C6_InitIsGated ==
  \A p \in Procs :
    Returned(p, "init")
      => /\ ~SevereFile(files[CanonicalFile])
         /\ ~SevereFile(FileOf(flattenBuckets(loadStatusBuckets(files))))

\* what a load returns after a save of these buckets
Saved(buckets) == [st \in Statuses |-> sortItems(buckets[st])]

\* the bucket file `st` holds exactly one record with this id, with status st
OnDiskIn(id, st) ==
  /\ CountInFile(files[st], id) = 1
  /\ BucketCount(files, id) = 1
  /\ \A i \in 1..Len(files[st].rows) :
       files[st].rows[i].id = id => files[st].rows[i].status = st

Succeeded(p, o) == op[p] = o /\ pc[p] = "done" /\ err[p] = ""

\* q loaded what p had written, and the bucket files are what q wrote
CommittedAfter(q, p) ==
  /\ previous[q] = Saved(current[p])
  /\ \A st \in Statuses : files[st] = writeMemoryItems(current[q][st])

C8_WritersHoldLock ==
  \A p \in Procs :
    pc[p] \in {"ensureSave", "save", "rebuild", "rollback", "rollbackRebuild",
               "pruneWrite", "importWrite"}
      => lockFile.exists /\ lockFile.pid = p

\* the item with this id among loaded buckets (NoItem when there is none)
ItemOf(buckets, id) ==
  LET l == findItemStatus(buckets, id)
  IN  IF l = NotLocated THEN NoItem ELSE buckets[l.status][l.index]

\* the list with the first occurrence of record `was` replaced by `now`
ReplaceFirst(items, was, now) ==
  LET i == CHOOSE k \in 1..Len(items) :
             items[k] = was /\ \A m \in 1..(k - 1) : items[m] # was
  IN  [items EXCEPT ![i] = now]

DiskCounts ==
  [active |-> Len(files["active"].rows), pending |-> Len(files["pending"].rows),
   deprecated |-> Len(files["deprecated"].rows)]

\* C9: changeStatus(id, to) on an item whose status differs from `to`
\* fails only on a severe audit; when it returns, the item is in bucket file
\* `to` and in no other, with status = to, updated = today and every other
\* field as before, and the result is from = the old status, to, the moved
\* item and the sizes of the bucket files.
C9_StatusChange ==
  \A p \in Procs :
    (/\ op[p] = "changeStatus" /\ pc[p] = "release"
     /\ ItemOf(previous[p], args[p].id) # NoItem
     /\ ItemOf(previous[p], args[p].id).status # args[p].to)
      => LET old   == ItemOf(previous[p], args[p].id)
             moved == [old EXCEPT !.status = args[p].to, !.updated = Today]
         IN  /\ err[p] \in {"", "audit"}
             /\ err[p] = "audit" =>
                  SevereFile(FileOf(ReplaceFirst(flattenBuckets(previous[p]), old, moved)))
             /\ err[p] = "" =>
                  /\ OnDiskIn(args[p].id, args[p].to)
                  /\ CountInFile(files[old.status], args[p].id) = 0
                  /\ \E i \in 1..Len(files[args[p].to].rows) :
                       files[args[p].to].rows[i] = moved
                  /\ res[p].from = old.status
                  /\ res[p].to = args[p].to
                  /\ res[p].item = moved
                  /\ res[p].counts = DiskCounts

\* C9 witness: the store held one pending item, the call moved it to active
\* and returned the counts 1, 0, 0
C9_Witness ==
  \E p \in Procs :
    /\ Returned(p, "changeStatus")
    /\ flattenBuckets(previous[p]) = <<Item(1, 1, 1, "pending", 1, 20)>>
    /\ args[p].to = "active"
    /\ res[p].from = "pending"
    /\ res[p].counts = [active |-> 1, pending |-> 0, deprecated |-> 0]

\* the call of p is changeStatus(id, to) with `to` the item's current status
SameStatusCall(p) ==
  /\ op[p] = "changeStatus" /\ pc[p] = "release"
  /\ ItemOf(previous[p], args[p].id) # NoItem
  /\ ItemOf(previous[p], args[p].id).status = args[p].to

\* the data is as before: same items in the same bucket files
DataUnchanged(p) ==
  /\ loadStatusBuckets(files) = previous[p]
  /\ \E i \in 1..Len(files[args[p].to].rows) :
       files[args[p].to].rows[i] = ItemOf(previous[p], args[p].id)

\* C10 as claimed: changeStatus to the current status changes no data and
\* returns from = to and the unchanged counts.
C10_SameStatusReturns ==
  \A p \in Procs :
    SameStatusCall(p)
      => /\ DataUnchanged(p)
         /\ err[p] = ""
         /\ res[p].from = args[p].to /\ res[p].to = args[p].to
         /\ res[p].counts = countsByStatus(previous[p])

\* C10 amended: changeStatus to the current status changes no data; it
\* returns from = to, the unchanged item and the unchanged counts when the
\* store's audit is not severe, and fails with the audit error when it is.
C10_SameStatusNoOp ==
  \A p \in Procs :
    SameStatusCall(p)
      => /\ DataUnchanged(p)
         /\ err[p] = "audit" <=> SevereFile(FileOf(flattenBuckets(previous[p])))
         /\ err[p] # "audit" =>
              /\ err[p] = ""
              /\ res[p].from = args[p].to /\ res[p].to = args[p].to
              /\ res[p].item = ItemOf(previous[p], args[p].id)
              /\ res[p].counts = countsByStatus(previous[p])

\* C10 witness: a same-status call has returned, the item's `updated` still
\* unset although the call ran
C10_Witness ==
  \E p \in Procs :
    /\ SameStatusCall(p) /\ err[p] = ""
    /\ res[p].item.updated = 0
    /\ res[p].from = res[p].to

\* C11: changeStatus on an id that no bucket holds fails with the not-found
\* error and leaves the three bucket files, the canonical file and the
\* runtime projection as they were before the call (checked for bucket
\* files that all exist before the call).
C11_NotFoundLeavesDisk ==
  \A p \in Procs :
    (/\ op[p] = "changeStatus" /\ pc[p] = "release"
     /\ findItemStatus(loadStatusBuckets(pre[p]), args[p].id) = NotLocated
     /\ \A st \in Statuses : pre[p][st].exists)
      => /\ err[p] = "notfound"
         /\ files = pre[p]

\* the ids a returned call targets
TargetIds(p) ==
  IF op[p] = "changeStatus" THEN {args[p].id} ELSE {args[p].leftId, args[p].rightId}

\* the items of a list that the call of p does not target
Untargeted(p, items) == SelectSeq(items, LAMBDA it : it.id \notin TargetIds(p))

\* C12 as claimed: after a successful changeStatus or mergeConflict the
\* flattened item list of the bucket files differs from the flattened list
\* of the bucket files before the call only in the targeted items.
C12_MinimalDiff ==
  \A p \in Procs :
    (Returned(p, "changeStatus") \/ Returned(p, "mergeConflict"))
      => Untargeted(p, flattenBuckets(loadStatusBuckets(files)))
           = Untargeted(p, flattenBuckets(loadStatusBuckets(pre[p])))

\* C12 amended: after a successful changeStatus or mergeConflict the
\* flattened item list of the bucket files differs only in the targeted
\* items from the flattened list the call loaded after ensureStatusBuckets,
\* which for a store without bucket files is the seed from the canonical file.
C12_MinimalDiffOfLoaded ==
  \A p \in Procs :
    (Returned(p, "changeStatus") \/ Returned(p, "mergeConflict"))
      => /\ Untargeted(p, flattenBuckets(loadStatusBuckets(files)))
              = Untargeted(p, flattenBuckets(previous[p]))
         /\ \A st \in Statuses : pre[p][st].exists =>
              loadStatusBuckets(pre[p]) = previous[p]

\* C12 witness: a merge has returned on a store that holds a third item
C12_Witness ==
  \E p \in Procs :
    /\ Returned(p, "mergeConflict")
    /\ Len(Untargeted(p, flattenBuckets(previous[p]))) = 1
    /\ Len(flattenBuckets(loadStatusBuckets(files))) = 3

\* one of mergeConflict's preconditions fails on these buckets
MergeRejected(buckets, a) ==
  LET l == ItemOf(buckets, a.leftId)
      r == ItemOf(buckets, a.rightId)
  IN  \/ a.leftId = a.rightId
      \/ l = NoItem \/ r = NoItem
      \/ ~isUnresolvedConflictPair(l, r)
      \/ a.keepId # 0 /\ a.keepId # a.leftId /\ a.keepId # a.rightId

\* C13: mergeConflict fails whenever leftId = rightId, an id is in no bucket,
\* the two items are not an unresolved conflict pair or a given keepId is
\* neither id, and the items a load of the three bucket files returns are
\* then the items it returned before the call.
C13_MergeRejectedLeavesItems ==
  \A p \in Procs :
    (/\ op[p] = "mergeConflict" /\ pc[p] = "release"
     /\ MergeRejected(previous[p], args[p]))
      => /\ err[p] \in {"notfound", "same-id", "not-a-conflict", "keep-id"}
         /\ loadStatusBuckets(files) = loadStatusBuckets(pre[p])

\* the id mergeConflict keeps and the id it deprecates
KeptId(a) == IF a.keepId = 0 THEN a.leftId ELSE a.keepId
OtherId(a) == IF KeptId(a) = a.leftId THEN a.rightId ELSE a.leftId

\* C14: a successful mergeConflict leaves the kept item (keepId, by default
\* leftId) under its own id with value = mergedValue, status active and
\* updated = today, and the other item under its own id with status
\* deprecated, updated = today and its value as before; both keep their
\* other fields apart from `next`; the result is mergedId = the kept id,
\* deprecatedId = the other id and pairId = smaller id, "__", larger id.
C14_MergeEffect ==
  \A p \in Procs :
    Returned(p, "mergeConflict")
      => LET a     == args[p]
             keep  == ItemOf(previous[p], KeptId(a))
             other == ItemOf(previous[p], OtherId(a))
             now   == loadStatusBuckets(files)
             lo    == IF a.leftId < a.rightId THEN a.leftId ELSE a.rightId
             hi    == IF a.leftId < a.rightId THEN a.rightId ELSE a.leftId
         IN  /\ KeptId(a) \in {a.leftId, a.rightId}
             /\ OnDiskIn(KeptId(a), "active")
             /\ OnDiskIn(OtherId(a), "deprecated")
             /\ [ItemOf(now, KeptId(a)) EXCEPT !.next = <<>>]
                  = [keep EXCEPT !.value = a.mergedValue, !.status = "active",
                                 !.updated = Today, !.next = <<>>]
             /\ [ItemOf(now, OtherId(a)) EXCEPT !.next = <<>>]
                  = [other EXCEPT !.status = "deprecated", !.updated = Today,
                                  !.next = <<>>]
             /\ res[p].mergedId = KeptId(a)
             /\ res[p].deprecatedId = OtherId(a)
             /\ res[p].pairId = <<lo, 0, 0, hi>>

\* C14 witness: a merge that keeps the right item has returned, the kept
\* item pending before and its value changed by the merge
C14_Witness ==
  \E p \in Procs :
    /\ Returned(p, "mergeConflict")
    /\ args[p].keepId = args[p].rightId
    /\ args[p].leftId < args[p].rightId
    /\ ItemOf(previous[p], args[p].rightId).status = "pending"
    /\ ItemOf(previous[p], args[p].rightId).value # args[p].mergedValue
    /\ res[p].mergedId = args[p].rightId

\* C15: in either mode, for two items whose statuses the mode allows,
\* isConflictPair is true exactly when they have the same topic and the same
\* key, their values differ, their scopes intersect (env equal or one of
\* them `all`; service equal or one of them unset; region equal or one of
\* them unset) and their windows overlap.
C15_ConflictPredicate ==
  output.applied /\ input \in [a : LeftItems, b : RightItems, allowedStatuses : ConflictModes] =>
    LET a == input.a
        b == input.b
    IN  (a.status \in input.allowedStatuses /\ b.status \in input.allowedStatuses) =>
          (output.value.ab <=>
             /\ a.topic = b.topic
             /\ a.key = b.key
             /\ a.value # b.value
             /\ a.scope.env = b.scope.env \/ "all" \in {a.scope.env, b.scope.env}
             /\ a.scope.service = b.scope.service \/ "" \in {a.scope.service, b.scope.service}
             /\ a.scope.region = b.scope.region \/ "" \in {a.scope.region, b.scope.region}
             /\ a.effective_from <= b.expires
             /\ b.effective_from <= a.expires)

\* a conflict between an item of one environment, service and region and an
\* item of every environment and region, one pending, found in the wider mode
C15_Witness ==
  /\ output.applied
  /\ input \in [a : LeftItems, b : RightItems, allowedStatuses : ConflictModes]
  /\ output.value.ab
  /\ input.allowedStatuses = {"active", "pending"}
  /\ input.b.status = "pending"
  /\ input.a.scope = [env |-> "prod", service |-> "api", region |-> "eu"]
  /\ input.b.scope = [env |-> "all", service |-> "api", region |-> ""]

\* C16: datesOverlap is the closed-interval test: the windows [aStart, aEnd]
\* and [bStart, bEnd] overlap exactly when aStart <= bEnd and bStart <= aEnd.
\* Windows that share exactly one day overlap; January..June overlaps
\* March..September and does not overlap July..September.
C16_ClosedIntervalOverlap ==
  output.applied /\ input \in [aStart : Days, aEnd : Days, bStart : Days, bEnd : Days] =>
    /\ output.value <=> (input.aStart <= input.bEnd /\ input.bStart <= input.aEnd)
    /\ (input.aStart <= input.aEnd /\ input.aEnd = input.bStart /\ input.bStart <= input.bEnd)
         => output.value
    /\ <<input.aStart, input.aEnd, input.bStart, input.bEnd>> = <<1, 6, 3, 9>> => output.value
    /\ <<input.aStart, input.aEnd, input.bStart, input.bEnd>> = <<1, 6, 7, 9>> => ~output.value

\* two windows of several days that share exactly one day, found to overlap
C16_Witness ==
  /\ output.applied
  /\ input \in [aStart : Days, aEnd : Days, bStart : Days, bEnd : Days]
  /\ input.aStart < input.aEnd
  /\ input.aEnd = input.bStart
  /\ input.bStart < input.bEnd
  /\ output.value

\* C17: in both modes isConflictPair(a, b) and isConflictPair(b, a) agree.
C17_ConflictSymmetric ==
  output.applied /\ input \in [a : LeftItems, b : RightItems, allowedStatuses : ConflictModes] =>
    output.value.ab = output.value.ba

\* a conflict in the active-only mode between items whose scopes differ in
\* every field, found in both orders
C17_Witness ==
  /\ output.applied
  /\ input \in [a : LeftItems, b : RightItems, allowedStatuses : ConflictModes]
  /\ input.allowedStatuses = {"active"}
  /\ input.a.scope = [env |-> "all", service |-> "", region |-> "eu"]
  /\ input.b.scope = [env |-> "dev", service |-> "web", region |-> ""]
  /\ output.value.ab
  /\ output.value.ba

\* the number a two-digit id reads as
IdNumber(t) == t[1] * (MaxDigit + 1) + t[2]

\* C18: conflictPairId(x, y) = conflictPairId(y, x) for all ids; for
\* well-formed ids the result is the smaller id, "__", the larger id; and two
\* different unordered pairs of well-formed ids get different pair ids.
C18_PairIdCanonical ==
  output.applied /\ input \in [x : IdTexts, y : IdTexts, u : IdTexts, v : IdTexts] =>
    /\ output.value.xy = output.value.yx
    /\ {input.x, input.y} \subseteq WellFormedIds =>
         LET lo == IF IdNumber(input.x) <= IdNumber(input.y) THEN input.x ELSE input.y
             hi == IF IdNumber(input.x) <= IdNumber(input.y) THEN input.y ELSE input.x
         IN  output.value.xy = <<lo[1], lo[2], 0, 0, hi[1], hi[2]>>
    /\ ({input.x, input.y, input.u, input.v} \subseteq WellFormedIds
          /\ {input.x, input.y} # {input.u, input.v})
         => output.value.xy # output.value.uv

\* the larger id given first, and a second pair that shares one id with it
C18_Witness ==
  /\ output.applied
  /\ input \in [x : WellFormedIds, y : WellFormedIds, u : WellFormedIds, v : WellFormedIds]
  /\ IdNumber(input.x) > IdNumber(input.y)
  /\ input.u = input.y
  /\ input.v # input.x
  /\ input.v # input.u

\* the positions i < j of a list whose items are both active or pending and
\* conflict: same topic and key, different values, intersecting scopes,
\* overlapping windows
UnresolvedPositions(items) ==
  {ij \in (1..Len(items)) \X (1..Len(items)) :
     LET a == items[ij[1]]
         b == items[ij[2]]
     IN  /\ ij[1] < ij[2]
         /\ {a.status, b.status} \subseteq {"active", "pending"}
         /\ a.topic = b.topic /\ a.key = b.key /\ a.value # b.value
         /\ a.scope.env = b.scope.env \/ "all" \in {a.scope.env, b.scope.env}
         /\ a.scope.service = b.scope.service \/ "" \in {a.scope.service, b.scope.service}
         /\ a.scope.region = b.scope.region \/ "" \in {a.scope.region, b.scope.region}
         /\ a.effective_from <= b.expires /\ b.effective_from <= a.expires}

\* the number a pair id of two one-character ids reads as
PairNumber(pairId) == pairId[1] * (Cardinality(Ids) + 1) + pairId[4]

\* C19: listConflicts(items) has as many entries for every unordered pair of
\* records as the list has unordered pairs of positions holding those
\* records, both active or pending and in conflict (so one entry per such
\* pair); no entry has a deprecated item; the pair ids ascend.
C19_ListConflicts ==
  output.applied /\ input \in UNION {[1..n -> ListedItems] : n \in 0..MaxItems} =>
    LET entries == output.value
        hits    == UnresolvedPositions(input)
    IN  /\ Len(entries) = Cardinality(hits)
        /\ \A ij \in hits :
             LET P == {input[ij[1]], input[ij[2]]}
             IN  Cardinality({k \in 1..Len(entries) : {entries[k].left, entries[k].right} = P})
                   = Cardinality({h \in hits : {input[h[1]], input[h[2]]} = P})
        /\ \A k \in 1..Len(entries) :
             /\ entries[k].left.status # "deprecated"
             /\ entries[k].right.status # "deprecated"
             /\ entries[k].pair_id \in {<<entries[k].left.id, 0, 0, entries[k].right.id>>,
                                        <<entries[k].right.id, 0, 0, entries[k].left.id>>}
        /\ \A k \in 1..(Len(entries) - 1) :
             PairNumber(entries[k].pair_id) <= PairNumber(entries[k + 1].pair_id)

\* a list in the order of ids 3, 1, 2, one item pending, whose two conflicts
\* the loops push in descending order of pair id
C19_Witness ==
  /\ output.applied
  /\ input \in [1..3 -> ListedItems]
  /\ input[1].id = 3 /\ input[2].id = 1 /\ input[3].id = 2
  /\ input[2].status = "pending"
  /\ input[1].value = input[3].value
  /\ Len(output.value) = 2
  /\ output.value[1].pair_id = <<1, 0, 0, 2>>
  /\ output.value[2].pair_id = <<1, 0, 0, 3>>

\* C20: for every list of issues auditExitCode is 2 when the list holds a
\* schema, duplicate-id, no-source or conflict issue, else 1 when it holds a
\* stale issue, else 0.
C20_SeverityPolicy ==
  output.applied /\ input \in UNION {[1..n -> AuditIssues] : n \in 0..MaxIssues} =>
    LET holds(c) == \E k \in 1..Len(input) : input[k].code = c
    IN  /\ (holds("schema") \/ holds("duplicate-id") \/ holds("no-source") \/ holds("conflict"))
             => output.value = 2
        /\ (~holds("schema") /\ ~holds("duplicate-id") /\ ~holds("no-source")
              /\ ~holds("conflict") /\ holds("stale"))
             => output.value = 1
        /\ input = <<>> => output.value = 0

\* a list whose first issues are stale and whose last is a conflict: exit 2
C20_Witness ==
  /\ output.applied
  /\ input \in [1..3 -> AuditIssues]
  /\ input[1].code = "stale"
  /\ input[2].code = "stale"
  /\ input[3].code = "conflict"
  /\ output.value = 2

\* C21: the stale issues of an audit are those of the active items whose
\* expires is strictly before today, and its conflict issues those of the
\* conflicting pairs whose items are both active; a pending or deprecated
\* item, an item that expires today and a conflict with a pending item
\* raise none.
C21_AuditLooksAtActive ==
  output.applied /\ input \in UNION {[1..n -> AuditedItems] : n \in 0..MaxAudited} =>
    LET at == 1..Len(input)
        activeAt == {k \in at : input[k].status = "active"}
    IN  /\ {i \in output.value : i.code = "stale"}
             = {[code |-> "stale", ids |-> {input[k].id}] :
                  k \in {m \in activeAt : input[m].expires < Today}}
        /\ {i \in output.value : i.code = "conflict"}
             = {[code |-> "conflict", ids |-> {input[h[1]].id, input[h[2]].id}] :
                  h \in {ij \in UnresolvedPositions(input) :
                           ij[1] \in activeAt /\ ij[2] \in activeAt}}

\* an active item that expires today and a pending item, expired, with
\* another value for the same fact: the audit raises no issue
C21_Witness ==
  /\ output.applied
  /\ input \in [1..2 -> AuditedItems]
  /\ input[1].status = "active" /\ input[1].expires = Today
  /\ input[2].status = "pending" /\ input[2].expires < Today
  /\ input[1].id # input[2].id
  /\ input[1].value # input[2].value
  /\ output.value = {}

\* a raw record without field errors, spelled out
FieldErrorFree(raw) ==
  /\ raw.id # 0
  /\ raw.source \in {"https://example.org/a", "docs/memory.md", "memory/notes.md", "src/a.ts"}
  /\ raw.effective_from <= raw.expires
  /\ raw.status \in {"active", "pending", "deprecated", " Pending"}
  /\ raw.scope.env \in {"", "all", "prod", "staging", "dev", "PROD"}

\* an item is the record it was read from: the same fields, its status and
\* env in their normal form
ItemOfRecord(item, raw) ==
  /\ [item EXCEPT !.status = raw.status, !.scope.env = raw.scope.env] = raw
  /\ item.status = (IF raw.status = " Pending" THEN "pending" ELSE raw.status)
  /\ item.scope.env = (IF raw.scope.env = "" THEN "all"
                       ELSE IF raw.scope.env = "PROD" THEN "prod" ELSE raw.scope.env)

\* C22: readMemoryItems of a list of raw records returns the records without
\* field errors, in their order; a record is accepted in the list exactly
\* when it is accepted alone, whatever the other records are, and the issues
\* of the list are those of its records.
C22_RecordsValidatedIndependently ==
  output.applied /\ input \in UNION {[1..n -> RawRecords] : n \in 0..MaxRaw} =>
    LET good  == {k \in 1..Len(input) : FieldErrorFree(input[k])}
        rank(k) == Cardinality({m \in good : m <= k})
        whole == output.value.whole
    IN  /\ Len(whole.items) = Cardinality(good)
        /\ \A k \in good : ItemOfRecord(whole.items[rank(k)], input[k])
        /\ \A k \in 1..Len(input) :
             /\ (k \in good) <=> (Len(output.value.alone[k].items) = 1)
             /\ (k \notin good) <=> (output.value.alone[k].issues # {})
             /\ output.value.alone[k].issues \subseteq whole.issues
        /\ whole.issues = UNION {output.value.alone[k].issues : k \in 1..Len(input)}

\* an invalid record first, then a record that needs normalising: the
\* second is accepted and the first's issues are reported
C22_Witness ==
  /\ output.applied
  /\ input \in [1..2 -> RawRecords]
  /\ input[1].source = "ftp://example.org/a"
  /\ input[2].status = " Pending" /\ input[2].scope.env = ""
  /\ Len(output.value.whole.items) = 1
  /\ output.value.whole.items[1].status = "pending"
  /\ output.value.whole.issues # {}

\* C23: when a call of withFileLock that created the lock file has ended,
\* with the task's result, with the task's error or with the error of the
\* payload write, the lock file that call created no longer exists.
C23_ReleasedOnEveryPath ==
  \A p \in Procs :
    pc[p] \in {"done", "failed"} /\ err[p] \in {"", "task", "payload"} =>
      ~(lockFile.exists /\ lockFile.pid = p)

\* C24: a caller that found the lock file stale deletes that file (the file
\* is there and stale when it is unlinked, and gone afterwards), goes
\* straight back to the open without sleeping and without the timeout check,
\* whatever its elapsed time, and that open acquires the lock.
C24_StaleReclaim ==
  [][\A p \in Procs :
       /\ (pc[p] = "unlink" /\ pc'[p] # "unlink") =>
            /\ lockFile.exists /\ lockFile.stale
            /\ ~lockFile'.exists
            /\ pc'[p] = "open"
            /\ err'[p] = ""
       /\ (pc[p] = "open" /\ sawStale[p] /\ pc'[p] # "open") =>
            /\ pc'[p] = "payload"
            /\ lockFile'.exists /\ lockFile'.pid = p]_vars

\* C25: every attempt of a caller that finds the lock file there and not
\* stale leaves the lock file as it is and leads to the timeout check; once
\* the caller's elapsed time has passed the timeout the check fails the call
\* with the timeout error, its task never having run, and a failed call
\* takes no further step.
C25_BoundedAcquisition ==
  [][\A p \in Procs :
       /\ (pc[p] = "open" /\ lockFile.exists /\ pc'[p] # "open") =>
            pc'[p] = "stat" /\ lockFile' = lockFile
       /\ (pc[p] = "stat" /\ ~(lockFile.exists /\ lockFile.stale) /\ pc'[p] # "stat") =>
            pc'[p] = "check" /\ lockFile' = lockFile
       /\ (pc[p] = "check" /\ ~waited[p] /\ pc'[p] # "check") =>
            pc'[p] = "open" /\ lockFile' = lockFile
       /\ (pc[p] = "check" /\ waited[p] /\ pc'[p] # "check") =>
            /\ pc'[p] = "failed" /\ err'[p] = "timeout"
            /\ op'[p] = "none"
            /\ lockFile' = lockFile
       /\ (pc[p] = "failed" /\ err[p] = "timeout") =>
            pc'[p] = "failed" /\ op'[p] = "none"]_vars

\* a caller has timed out while the other caller's task runs under its own
\* lock file, which is still there
C25_Witness ==
  \E p \in Procs, q \in Procs :
    /\ p # q
    /\ pc[p] = "failed" /\ err[p] = "timeout" /\ op[p] = "none"
    /\ pc[q] = "task"
    /\ lockFile.exists /\ lockFile.pid = q /\ ~lockFile.stale

\* the three bucket files of a disk
BucketFiles(disk) == [st \in Statuses |-> disk[st]]

\* C26: when init has run twice in a row, the second run leaves the three
\* bucket files as the first run left them and returns the first run's
\* counts.
C26_InitIdempotent ==
  (op[1] = "init" /\ pc[1] = "done" /\ op[2] = "init" /\ pc[2] = "done") =>
    /\ BucketFiles(files) = BucketFiles(pre[2])
    /\ res[2].counts = res[1].counts

\* the second init is done on a store whose first init dropped a record and
\* sorted a bucket
C26_Witness ==
  /\ op[1] = "init" /\ pc[1] = "done" /\ op[2] = "init" /\ pc[2] = "done"
  /\ pre[1]["active"].exists /\ Len(pre[1]["active"].rows) = 2
  /\ pre[1]["active"].rows # pre[2]["active"].rows
  /\ pre[1]["pending"] = FileOf(<<NoSourceRecord>>)
  /\ pre[2]["pending"] = FileOf(<<>>)

\* a raw record in normal form
NormalForm(raw) ==
  [raw EXCEPT !.status = IF @ = " Pending" THEN "pending" ELSE @,
              !.scope.env = IF @ = "" THEN "all" ELSE IF @ = "PROD" THEN "prod" ELSE @]

\* how often an item occurs in a list
Occurrences(items, x) == Cardinality({i \in 1..Len(items) : items[i] = x})

\* a file that exists and holds exactly the given items, in sort order
HoldsSorted(file, items) ==
  /\ file.exists
  /\ Len(file.rows) = Len(items)
  /\ \A i \in 1..Len(items) : Occurrences(file.rows, items[i]) = Occurrences(items, items[i])
  /\ \A i \in 1..Len(file.rows) : \A j \in 1..Len(file.rows) :
       i < j => ~ItemBefore(file.rows[j], file.rows[i])

\* the error-free records of a file, in normal form (none of a missing file)
AcceptedRows(file) ==
  IF ~file.exists THEN <<>>
  ELSE LET good == SelectSeq(file.rows, FieldErrorFree)
       IN  [k \in 1..Len(good) |-> NormalForm(good[k])]

EnsureDone(p) == op[p] = "dashboard" /\ pc[p] = "done"

\* C27: ensureStatusBuckets on a store without bucket files writes, for each
\* status, the canonical file's items of that status; on a store with a
\* bucket file it rewrites each bucket from its own file (a missing one
\* empty), every item labelled with the bucket's status, whatever the
\* canonical file holds; it never writes the canonical file; and a second
\* ensureStatusBuckets leaves the bucket files as the first did.
C27_EnsureBuckets ==
  /\ \A p \in Procs : EnsureDone(p) =>
       /\ files[CanonicalFile] = pre[p][CanonicalFile]
       /\ \A st \in Statuses :
            IF \A b \in Statuses : ~pre[p][b].exists
            THEN HoldsSorted(files[st],
                   SelectSeq(AcceptedRows(pre[p][CanonicalFile]), LAMBDA it : it.status = st))
            ELSE HoldsSorted(files[st],
                   [k \in 1..Len(AcceptedRows(pre[p][st])) |->
                      [AcceptedRows(pre[p][st])[k] EXCEPT !.status = st]])
  /\ (EnsureDone(1) /\ EnsureDone(2)) => BucketFiles(files) = BucketFiles(pre[2])

\* two runs on a store that had only a canonical file, whose record with the
\* status " Pending" went to pending.yml and whose other to deprecated.yml
C27_Witness ==
  /\ EnsureDone(1) /\ EnsureDone(2)
  /\ \A b \in Statuses : ~pre[1][b].exists
  /\ Len(pre[1][CanonicalFile].rows) = 2
  /\ Len(files["pending"].rows) = 1 /\ files["pending"].rows[1].status = "pending"
  /\ Len(files["deprecated"].rows) = 1
  /\ files["active"] = FileOf(<<>>)

\* a Status Store operation has committed or rolled back and is about to
\* give up the lock
Completed(p) ==
  /\ op[p] \in StoreOps \cup {"init"}
  /\ pc[p] = "release"
  /\ err[p] \in {"", "audit"}

\* C28: when a Status Store operation has committed or rolled back, the
\* canonical file holds, sorted, exactly the items of the three bucket
\* files, and every item of a bucket file has that bucket's status.
C28_CanonicalIsUnionOfBuckets ==
  \A p \in Procs : Completed(p) =>
    /\ \A st \in Statuses : files[st].exists
    /\ HoldsSorted(files[CanonicalFile],
                   files["active"].rows \o files["pending"].rows \o files["deprecated"].rows)
    /\ \A st \in Statuses : \A i \in 1..Len(files[st].rows) : files[st].rows[i].status = st

\* a merge has rolled back on a store of two or more items
C28_Witness ==
  \E p \in Procs :
    /\ Completed(p) /\ op[p] = "mergeConflict" /\ err[p] = "audit"
    /\ Len(files[CanonicalFile].rows) >= 2

\* the ids of the records the three bucket files of a disk hold
BucketRecordIds(disk) == UNION {IdsOfRows(disk[st].rows) : st \in Statuses}

\* C29: when init, changeStatus or mergeConflict has run, committed, rolled
\* back or rejected, every id that was in a bucket file when the operation
\* started is in a bucket file.
C29_NeverRemovesARecord ==
  \A p \in Procs :
    (op[p] \in StoreOps \cup {"init"} /\ pc[p] = "release") =>
      BucketRecordIds(pre[p]) \subseteq BucketRecordIds(files)

\* the ids prune --apply took out of the canonical file it read
ArchivedBy(p) ==
  IdsOfRows(readMemoryItems(pre[p][CanonicalFile]).items) \ IdsOfRows(list[p])

PruneApplied(p) == op[p] = "prune" /\ pc[p] = "done"

\* an init that started from the canonical file as the prune wrote it and
\* has finished its task
InitAfterPrune(q, p) ==
  /\ op[q] = "init"
  /\ pc[q] \in {"release", "recount", "done"}
  /\ pre[q][CanonicalFile] = writeMemoryItems(list[p])

\* C30: the items prune --apply archived are not in the canonical file when
\* the prune is done and no Status Store operation has run since, and are
\* neither in the canonical file nor in a bucket file after a later init.
C30_PruneIsPermanent ==
  \A p \in Procs, q \in Procs :
    (p # q /\ PruneApplied(p)) =>
      /\ pc[q] = "idle" => ArchivedBy(p) \cap IdsOfRows(files[CanonicalFile].rows) = {}
      /\ InitAfterPrune(q, p) =>
           ArchivedBy(p) \cap (IdsOfRows(files[CanonicalFile].rows) \cup BucketRecordIds(files)) = {}

\* ------------------------------------------------ saveStatusBuckets alone
\* saveStatusBuckets: each bucket file becomes the sorted bucket; the other
\* files stay
saveStatusBuckets(disk, buckets) ==
  [f \in FileNames |->
     IF f \in Statuses THEN writeMemoryItems(sortItems(buckets[f])) ELSE disk[f]]

\* the records a bucket may hold in memory: every (topic, key, id) over two
\* topics, two keys and two ids, a second record with the id of another,
\* and a pending record
MaxSaved == 3
SavedItems ==
  {ScopedItem(id, t, k, 1, "active", "all", "", "", 1, 20) :
     id \in 1..2, t \in 1..2, k \in 1..2}
  \cup {ScopedItem(1, 1, 1, 2, "active", "all", "", "", 1, 20),
        ScopedItem(3, 1, 2, 1, "pending", "all", "", "", 1, 20)}

\* the same records in every order
Reorderings(s) ==
  {[i \in 1..Len(s) |-> s[f[i]]] :
     f \in {g \in [1..Len(s) -> 1..Len(s)] : \A i, j \in 1..Len(s) : g[i] = g[j] => i = j}}

InitSave ==
  /\ InitIdle
  /\ \E n \in 0..MaxSaved :
       \E first \in [1..n -> SavedItems] :
         \E second \in Reorderings(first) :
           input = [first |-> first, second |-> second]

ApplySaveStatusBuckets ==
  /\ ~output.applied
  /\ output' = Applied([first  |-> saveStatusBuckets(files, BucketsOf(input.first)),
                        second |-> saveStatusBuckets(files, BucketsOf(input.second))])
  /\ UNCHANGED <<storeVars, input>>

NextSave == ApplySaveStatusBuckets

SpecSave == InitSave /\ [][NextSave]_vars

\* rows i and j of a file are in ascending order of (topic, key, id)
Ascending(rows) ==
  \A i, j \in 1..Len(rows) :
    i < j =>
      \/ rows[i].topic < rows[j].topic
      \/ rows[i].topic = rows[j].topic /\ rows[i].key < rows[j].key
      \/ rows[i].topic = rows[j].topic /\ rows[i].key = rows[j].key
           /\ rows[i].id <= rows[j].id

UniqueIds(items) == \A i, j \in 1..Len(items) : items[i].id = items[j].id => i = j

\* C31: after a save every bucket file lists the records of its bucket in
\* ascending order of (topic, key, id), whatever their order in memory, and
\* two orders of the same records with unique ids give the same files.
C31_SaveSorts ==
  output.applied =>
    /\ \A st \in Statuses :
         /\ Ascending(output.value.first[st].rows)
         /\ \A x \in SavedItems :
              Occurrences(output.value.first[st].rows, x)
                = Occurrences(BucketsOf(input.first)[st], x)
    /\ UniqueIds(input.first) => output.value.first = output.value.second

C31_Witness ==
  /\ output.applied
  /\ Len(input.first) = 3
  /\ UniqueIds(input.first)
  /\ input.first # input.second
  /\ ~Ascending(BucketsOf(input.first)["active"])
  /\ \E i, j \in 1..3 : /\ input.first[i].topic = input.first[j].topic
                        /\ input.first[i].key > input.first[j].key
                        /\ input.first[i].id < input.first[j].id

\* --------------------------------------------- writeTextFileAtomic alone
\* the temporary file of a caller: the name holds the process id
TmpPath(p) == IF p = 1 THEN ".MEMORY.yml.1.tmp" ELSE ".MEMORY.yml.2.tmp"

AtomicPaths == {CanonicalFile} \cup {TmpPath(p) : p \in Procs}

\* the texts a caller may write: lists of MaxLines lines
MaxLines == 2
Contents ==
  {<<Item(1, 1, 1, "active", 1, 20), Item(2, 1, 1, "pending", 1, 20)>>,
   [k \in 1..MaxLines |-> Item(k, 2, 2, "active", 1, 20)]}

InitAtomic ==
  /\ files \in {[f \in AtomicPaths |-> IF f = CanonicalFile THEN c ELSE AbsentFile] :
                  c \in {AbsentFile, FileOf(<<Item(3, 1, 1, "deprecated", 1, 20)>>)}}
  /\ lockFile = NoLock
  /\ InitLocals

\* writeTextFileAtomic is called with a path and a content
AtomicCall(p) ==
  /\ pc[p] = "idle"
  /\ \E content \in Contents : list' = [list EXCEPT ![p] = content]
  /\ op' = [op EXCEPT ![p] = "writeAtomic"]
  /\ pc' = [pc EXCEPT ![p] = "tmpOpen"]
  /\ pre' = [pre EXCEPT ![p] = files]
  /\ UNCHANGED <<files, lockFile, args, buf, current, previous, wi, err, res,
                 waited, sawStale, contended, input, output>>

\* (variant) the write opens the destination itself
TmpOpen_Destination(p) ==
  /\ pc[p] = "tmpOpen"
  /\ files' = [files EXCEPT ![CanonicalFile] = FileOf(<<>>)]
  /\ wi' = [wi EXCEPT ![p] = 0]
  /\ pc' = [pc EXCEPT ![p] = "tmpWrite"]
  /\ UNCHANGED <<lockFile, op, args, buf, current, previous, err, res,
                 waited, sawStale, contended, list, pre, input, output>>

\* writeFile(tmpPath, ...): the temporary file is created empty
TmpOpen(p) ==
  /\ pc[p] = "tmpOpen"
  /\ files' = [files EXCEPT ![TmpPath(p)] = FileOf(<<>>)]
  /\ wi' = [wi EXCEPT ![p] = 0]
  /\ pc' = [pc EXCEPT ![p] = "tmpWrite"]
  /\ UNCHANGED <<lockFile, op, args, buf, current, previous, err, res,
                 waited, sawStale, contended, list, pre, input, output>>

\* writeFile(tmpPath, ...): one more line reaches the temporary file
TmpWrite(p) ==
  /\ pc[p] = "tmpWrite"
  /\ wi[p] < Len(list[p])
  /\ files' = [files EXCEPT ![TmpPath(p)] = FileOf(SubSeq(list[p], 1, wi[p] + 1))]
  /\ wi' = [wi EXCEPT ![p] = wi[p] + 1]
  /\ UNCHANGED <<lockFile, pc, op, args, buf, current, previous, err, res,
                 waited, sawStale, contended, list, pre, input, output>>

\* rename(tmpPath, filePath): the destination becomes the temporary file
Rename(p) ==
  /\ pc[p] = "tmpWrite"
  /\ wi[p] = Len(list[p])
  /\ files' = [files EXCEPT ![CanonicalFile] = files[TmpPath(p)],
                            ![TmpPath(p)] = AbsentFile]
  /\ wi' = [wi EXCEPT ![p] = 0]
  /\ pc' = [pc EXCEPT ![p] = "done"]
  /\ UNCHANGED <<lockFile, op, args, buf, current, previous, err, res,
                 waited, sawStale, contended, list, pre, input, output>>

\* the process dies inside writeTextFileAtomic
Crash(p) ==
  /\ pc[p] \in {"tmpOpen", "tmpWrite"}
  /\ pc' = [pc EXCEPT ![p] = "crashed"]
  /\ UNCHANGED <<files, lockFile, op, args, buf, current, previous, wi, err,
                 res, waited, sawStale, contended, list, pre, input, output>>

NextAtomic ==
  \E p \in Procs :
    \/ AtomicCall(p)
    \/ TmpOpen(p)
    \/ TmpWrite(p)
    \/ Rename(p)
    \/ Crash(p)

SpecAtomic == InitAtomic /\ [][NextAtomic]_vars

InsideWrite(p) == pc[p] \in {"tmpOpen", "tmpWrite", "crashed", "done"}

\* C32: while a caller is inside writeTextFileAtomic, and after it crashed
\* there, the destination holds what it held when the call started, or the
\* complete content of this call, or the complete content of a call of the
\* other caller; never a prefix of a content and never an emptied file.
C32_AtomicWrite ==
  \A p \in Procs :
    InsideWrite(p) =>
      \/ files[CanonicalFile] = pre[p][CanonicalFile]
      \/ files[CanonicalFile] \in {FileOf(c) : c \in Contents}

C32_Witness ==
  \E p \in Procs :
    /\ pc[p] = "crashed"
    /\ pre[p][CanonicalFile].exists
    /\ files[TmpPath(p)].exists
    /\ Len(files[TmpPath(p)].rows) = 1
    /\ files[CanonicalFile] = pre[p][CanonicalFile]

\* C33: the counts a completed init returns are the sizes of the buckets this
\* init saved inside its critical section.
C33_InitCountsUnderLock ==
  \A p \in Procs :
    (op[p] = "init" /\ pc[p] = "done" /\ err[p] = "") =>
      res[p].counts = countsByStatus(current[p])

\* C34: a call starts its task only while it has no task error in hand (the
\* task runs at most once), and when the task has failed the release step
\* ends the call with that same error, whatever the error's code.
C34_TaskRunsOnce ==
  [][\A p \in Procs :
       /\ (pc[p] = "locked" /\ pc'[p] = "task") => err[p] = ""
       /\ (pc[p] = "release" /\ err[p] # "" /\ pc'[p] # "release") =>
            (pc'[p] = "failed" /\ err'[p] = err[p])]_vars

\* C35: the release step of a caller leaves a lock file that another caller
\* created as it is.
C35_ReleaseOwnLockOnly ==
  [][\A p \in Procs :
       (pc[p] = "release" /\ pc'[p] # "release"
          /\ lockFile.exists /\ lockFile.pid # p) => lockFile' = lockFile]_vars

\* ------------------------------------- the lock manager, every step taken
InitLockLive ==
  /\ files = DiskOf(emptyBuckets)
  /\ lockFile \in {NoLock, [exists |-> TRUE, pid |-> 0, stale |-> FALSE], Undeletable}
  /\ InitLocals

\* Every step of a call that can be taken is taken, the task returns, and
\* time passes: the lock file ages and a waiting caller's clock reaches its
\* timeout at one of its checks
FairLock ==
  /\ WF_vars(AgeLock)
  /\ \A p \in Procs :
       /\ WF_vars(Open(p)) /\ WF_vars(WritePayload(p)) /\ WF_vars(Stat(p))
       /\ WF_vars(Reclaim(p)) /\ WF_vars(Retry(p) \/ Timeout(p))
       /\ SF_vars(ClockPassesTimeout(p))
       /\ WF_vars(StartTask(p)) /\ WF_vars(FinishTask(p)) /\ WF_vars(Release(p))

SpecLockLive == InitLockLive /\ [][NextLock]_vars /\ FairLock

\* C36: every call of withFileLock that has started ends, with the task's
\* outcome or with an error.
C36_EveryCallCompletes ==
  \A p \in Procs : (pc[p] # "idle") ~> (pc[p] \in {"done", "failed"})

\* ------------------------------------------------- memory-inbox-triage
\* nextMemId: one past the largest sequence number in use, which is then
\* in use too
nextMemId(existingIds) ==
  1 + (IF existingIds = {} THEN 0
       ELSE CHOOSE m \in existingIds : \A i \in existingIds : i <= m)

TriageExpiresDays == 180

\* the ids of the active items the item conflicts with
findActiveConflictPeers(item, activeItems) ==
  IF item.status # "active" THEN {}
  ELSE LET pairs == listActiveConflictPairs(Append(activeItems, item))
       IN  {pairs[k].right.id : k \in {i \in 1..Len(pairs) : pairs[i].left.id = item.id}}
           \cup {pairs[k].left.id :
                   k \in {i \in 1..Len(pairs) : pairs[i].left.id # item.id
                                                  /\ pairs[i].right.id = item.id}}

\* the ids that take part in a conflict between two active items
buildConflictPeerMap(items) ==
  LET pairs == listActiveConflictPairs(items)
  IN  UNION {{pairs[k].left.id, pairs[k].right.id} : k \in 1..Len(pairs)}

\* the active items with these ids go to the end of the pending bucket
moveActiveIdsToPending(buckets, ids, today) ==
  IF ids = {} THEN buckets
  ELSE LET moved == SelectSeq(buckets.active, LAMBDA it : it.id \in ids)
       IN  [buckets EXCEPT
              !.active  = SelectSeq(buckets.active, LAMBDA it : it.id \notin ids),
              !.pending = @ \o [k \in 1..Len(moved) |->
                                  [moved[k] EXCEPT !.status = "pending",
                                                   !.updated = today,
                                                   !.next = Append(@, "moved")]]]

\* the state of a run before its first candidate: conflicting active items
\* are moved to pending, prospectiveActive is the active bucket
TriageStart(loaded, today) ==
  LET quarantined == moveActiveIdsToPending(loaded, buildConflictPeerMap(loaded.active), today)
      existing    == flattenBuckets(loaded)
  IN  [buckets           |-> quarantined,
       prospectiveActive |-> quarantined.active,
       triaged           |-> <<>>,
       existingIds       |-> {existing[i].id : i \in 1..Len(existing)},
       fingerprints      |-> {<<existing[i].topic, existing[i].key, existing[i].value>> :
                                i \in 1..Len(existing)},
       changed           |-> quarantined # loaded]

\* one proposed candidate with the status the model call assigned to it
TriageCandidate(run, cand, today) ==
  IF <<cand.topic, cand.key, cand.value>> \in run.fingerprints
  THEN run
  ELSE LET memId == nextMemId(run.existingIds)
           item  == [Item(memId, cand.topic, cand.value, cand.assigned,
                          today, today + TriageExpiresDays)
                       EXCEPT !.key = cand.key, !.updated = today]
           conflictIds == IF cand.assigned = "active"
                          THEN findActiveConflictPeers(item, run.prospectiveActive)
                          ELSE {}
           moved == moveActiveIdsToPending(run.buckets, conflictIds, today)
       IN  IF conflictIds # {}
           THEN [run EXCEPT
                   !.buckets = moved,
                   !.prospectiveActive = moved.active,
                   !.triaged = Append(@, [item EXCEPT !.status = "pending",
                                                      !.next = <<"downgraded">>]),
                   !.existingIds = @ \cup {memId},
                   !.fingerprints = @ \cup {<<cand.topic, cand.key, cand.value>>},
                   !.changed = TRUE]
           ELSE [run EXCEPT
                   !.prospectiveActive = IF cand.assigned = "active"
                                         THEN Append(@, item) ELSE @,
                   !.triaged = Append(@, item),
                   !.existingIds = @ \cup {memId},
                   !.fingerprints = @ \cup {<<cand.topic, cand.key, cand.value>>},
                   !.changed = TRUE]

RECURSIVE TriageLoop(_, _, _)
TriageLoop(run, candidates, today) ==
  IF candidates = <<>> THEN run
  ELSE TriageLoop(TriageCandidate(run, Head(candidates), today), Tail(candidates), today)

RECURSIVE PushTriaged(_, _)
PushTriaged(buckets, triaged) ==
  IF triaged = <<>> THEN buckets
  ELSE PushTriaged([buckets EXCEPT ![Head(triaged).status] = Append(@, Head(triaged))],
                   Tail(triaged))

\* the task of the triage run on a store and the candidates of its inbox
\* file: what it leaves on disk, and whether its audit let it commit
triageMain(disk, candidates, today) ==
  LET loaded   == loadStatusBuckets(DiskOf(ensureStatusBuckets(disk)))
      run      == TriageLoop(TriageStart(loaded, today), candidates, today)
      buckets  == PushTriaged(run.buckets, run.triaged)
      severe   == auditExitCode(auditMemory(writeMemoryItems(flattenBuckets(buckets)),
                                            today).issues) = 2
  IN  IF ~run.changed THEN [committed |-> TRUE, triaged |-> run.triaged, disk |-> DiskOf(loaded)]
      ELSE IF severe  THEN [committed |-> FALSE, triaged |-> run.triaged, disk |-> DiskOf(loaded)]
      ELSE [committed |-> TRUE, triaged |-> run.triaged, disk |-> DiskOf(buckets)]

\* a run's candidates: at most MaxCandidates proposed candidates of two
\* topics and one key, the model call's status for each
MaxCandidates == 3
Candidates ==
  [topic : 1..2, key : {1}, value : 1..MaxCandidates, assigned : {"active", "pending"}]

TriageStores ==
  {<<>>,
   <<Item(1, 1, 1, "active", 1, 20)>>,
   <<Item(1, 1, 1, "active", 1, 20), Item(2, 2, 1, "pending", 1, 20)>>}

InitTriage ==
  /\ InitIdle
  /\ \E rows \in TriageStores :
       \E n \in 0..MaxCandidates :
         \E cands \in [1..n -> Candidates] :
           input = [disk |-> DiskOf(BucketsOf(rows)), candidates |-> cands]

ApplyTriage ==
  /\ ~output.applied
  /\ output' = Applied(triageMain(input.disk, input.candidates, Today))
  /\ UNCHANGED <<storeVars, input>>

NextTriage == ApplyTriage

SpecTriage == InitTriage /\ [][NextTriage]_vars

\* the candidates share topic and key, no two have the same value, and
\* all were classified active
RivalCandidates(cands) ==
  /\ \A i, j \in 1..Len(cands) :
       /\ cands[i].topic = cands[j].topic
       /\ cands[i].key = cands[j].key
       /\ cands[i].value = cands[j].value => i = j
  /\ \A i \in 1..Len(cands) : cands[i].assigned = "active"

\* C37: a run whose candidates share topic and key, differ in value and are
\* all classified active commits, and the store it leaves has no two
\* conflicting active items.
C37_TriageCommits ==
  (output.applied /\ RivalCandidates(input.candidates)) =>
    /\ output.value.committed
    /\ listActiveConflictPairs(readMemoryItems(output.value.disk["active"]).items) = <<>>

\* ------------------------------------------------- memory-inbox-promote
RECURSIVE PromoteLoop(_, _, _, _)
\* one row of the promote loop after another: a candidate whose fingerprint
\* exists is a duplicate, any other becomes an item with status `to`
PromoteLoop(run, candidates, to, today) ==
  IF candidates = <<>> THEN run
  ELSE LET cand  == Head(candidates)
           print == <<cand.topic, cand.key, cand.value>>
           memId == nextMemId(run.existingIds)
           item  == [Item(memId, cand.topic, cand.value, to, today, today + TriageExpiresDays)
                       EXCEPT !.key = cand.key, !.updated = today]
       IN  PromoteLoop(IF print \in run.fingerprints THEN run
                       ELSE [run EXCEPT !.triaged = Append(@, item),
                                        !.existingIds = @ \cup {memId},
                                        !.fingerprints = @ \cup {print}],
                       Tail(candidates), to, today)

\* the task of the promote run: the promoted items go to the bucket `to`
promoteMain(disk, candidates, to, today) ==
  LET loaded   == loadStatusBuckets(DiskOf(ensureStatusBuckets(disk)))
      existing == flattenBuckets(loaded)
      run      == PromoteLoop([triaged      |-> <<>>,
                               existingIds  |-> {existing[i].id : i \in 1..Len(existing)},
                               fingerprints |-> {<<existing[i].topic, existing[i].key,
                                                   existing[i].value>> : i \in 1..Len(existing)}],
                              candidates, to, today)
      buckets  == [loaded EXCEPT ![to] = @ \o run.triaged]
      severe   == auditExitCode(auditMemory(writeMemoryItems(flattenBuckets(buckets)),
                                            today).issues) = 2
  IN  IF run.triaged = <<>> THEN [committed |-> TRUE, triaged |-> <<>>, disk |-> DiskOf(loaded)]
      ELSE IF severe THEN [committed |-> FALSE, triaged |-> run.triaged, disk |-> DiskOf(loaded)]
      ELSE [committed |-> TRUE, triaged |-> run.triaged, disk |-> DiskOf(buckets)]

\* ------------------------------------ capture and the runs on one inbox
InboxFile   == "inbox/today.yml"
ArchiveFile == "inbox/archive/today.yml"

Capturer  == 1   \* the process that runs memory-capture-from-session
Processor == 2   \* the process that runs inbox triage or inbox promote

\* a row of an inbox file
Candidate(id, status, value) ==
  [id |-> id, status |-> status, topic |-> 1, key |-> 1, value |-> value]

\* the lines a capture run may find in the sessions
MaxCaptured == 2
CapturedValues == 1..MaxCaptured

\* nextCandidateId: one past the largest sequence number of the rows read
nextCandidateId(existing) ==
  1 + (IF existing = <<>> THEN 0
       ELSE CHOOSE m \in {existing[i].id : i \in 1..Len(existing)} :
              \A i \in 1..Len(existing) : existing[i].id <= m)

\* readYamlList / readJsonArrayIfExists: a missing file is an empty list
readYamlList(file) == IF file.exists THEN file.rows ELSE <<>>

InitInbox ==
  /\ \E rows \in {<<>>, <<Item(1, 1, 1, "active", 1, 20)>>} :
       \E inbox \in {AbsentFile,
                     FileOf(<<Candidate(1, "proposed", 1)>>),
                     FileOf(<<Candidate(1, "rejected", 2)>>)} :
         files = [f \in FileNames \cup {InboxFile, ArchiveFile} |->
                    IF f \in FileNames THEN DiskOf(BucketsOf(rows))[f]
                    ELSE IF f = InboxFile THEN inbox ELSE AbsentFile]
  /\ lockFile = NoLock
  /\ InitLocals

\* capture main 329-333: the inbox file as it is now (no lock is taken)
CaptureRead(p) ==
  /\ p = Capturer
  /\ pc[p] = "idle"
  /\ op' = [op EXCEPT ![p] = "capture"]
  /\ list' = [list EXCEPT ![p] = readYamlList(files[InboxFile])]
  /\ pre' = [pre EXCEPT ![p] = files]
  /\ pc' = [pc EXCEPT ![p] = "captureWrite"]
  /\ UNCHANGED <<files, lockFile, args, buf, current, previous, wi, err, res,
                 waited, sawStale, contended, input, output>>

\* capture main 340-419: a line not seen in the rows read becomes a proposed
\* candidate, and the rows read plus the new candidate replace the file
CaptureWrite(p) ==
  /\ pc[p] = "captureWrite"
  /\ \E v \in CapturedValues :
       LET seen    == {list[p][i].value : i \in 1..Len(list[p])}
           pending == IF v \in seen THEN <<>>
                      ELSE <<Candidate(nextCandidateId(list[p]), "proposed", v)>>
       IN  /\ files' = [files EXCEPT ![InboxFile] = FileOf(list[p] \o pending)]
           /\ list' = [list EXCEPT ![p] = list[p] \o pending]
  /\ pc' = [pc EXCEPT ![p] = "done"]
  /\ UNCHANGED <<lockFile, op, args, buf, current, previous, wi, err, res,
                 waited, sawStale, contended, pre, input, output>>

Proposed(rows) == SelectSeq(rows, LAMBDA r : r.status = "proposed")

\* the task of triage or promote up to its catch block: the store is loaded,
\* the inbox file read, every proposed candidate processed, and the buckets
\* saved and audited, or restored when the audit is severe
InboxProcess(p) ==
  /\ p = Processor
  /\ pc[p] = "locked"
  /\ \E run \in {"triage", "promote"}, to \in {"active", "pending"} :
       LET rows   == readYamlList(files[InboxFile])
           cands  == [k \in 1..Len(Proposed(rows)) |->
                        [topic |-> Proposed(rows)[k].topic, key |-> Proposed(rows)[k].key,
                         value |-> Proposed(rows)[k].value, assigned |-> to]]
           store  == [f \in FileNames |-> files[f]]
           result == IF run = "triage" THEN triageMain(store, cands, Today)
                     ELSE promoteMain(store, cands, to, Today)
       IN  /\ op' = [op EXCEPT ![p] = run]
           /\ args' = [args EXCEPT ![p] = [NoArgs EXCEPT !.to = to]]
           /\ files' = [f \in DOMAIN files |->
                          IF f \in FileNames THEN result.disk[f] ELSE files[f]]
           /\ list' = [list EXCEPT ![p] = SelectSeq(rows, LAMBDA r : r.status # "proposed")]
           /\ err' = [err EXCEPT ![p] = IF result.committed THEN "" ELSE "audit"]
           /\ pc' = [pc EXCEPT ![p] = IF result.committed THEN "inboxWrite" ELSE "release"]
  /\ pre' = [pre EXCEPT ![p] = files]
  /\ UNCHANGED <<lockFile, buf, current, previous, wi, res,
                 waited, sawStale, contended, input, output>>

\* the rows that were not processed replace the inbox file
InboxWrite(p) ==
  /\ pc[p] = "inboxWrite"
  /\ files' = [files EXCEPT ![InboxFile] = FileOf(list[p])]
  /\ pc' = [pc EXCEPT ![p] = "archiveWrite"]
  /\ UNCHANGED <<lockFile, err, waited, sawStale, contended, taskVars>>

\* one archive row per processed candidate is added to the archive file
ArchiveWrite(p) ==
  /\ pc[p] = "archiveWrite"
  /\ LET archiveRows == Proposed(readYamlList(pre[p][InboxFile]))
     IN  files' = IF archiveRows = <<>> THEN files
                  ELSE [files EXCEPT ![ArchiveFile] =
                          FileOf(readYamlList(files[ArchiveFile]) \o archiveRows)]
  /\ pc' = [pc EXCEPT ![p] = "release"]
  /\ UNCHANGED <<lockFile, err, waited, sawStale, contended, taskVars>>

\* triage and promote call withFileLock; capture does not
InboxCall(p) ==
  /\ p = Processor
  /\ Call(p)

NextInbox ==
  \E p \in Procs :
    \/ CaptureRead(p) \/ CaptureWrite(p)
    \/ InboxCall(p) \/ Open(p) \/ WritePayload(p)
    \/ InboxProcess(p) \/ InboxWrite(p) \/ ArchiveWrite(p) \/ Release(p)

SpecInbox == InitInbox /\ [][NextInbox]_vars

\* the candidates a finished capture run added to the rows it had read
CapturedBy(p) ==
  {list[p][i] : i \in (Len(readYamlList(pre[p][InboxFile])) + 1)..Len(list[p])}

\* a triage or promote run read the row as a proposed candidate and went on
\* to process and archive it
ProcessedRow(row) ==
  \E q \in Procs :
    /\ op[q] \in {"triage", "promote"}
    /\ pc[q] \in {"inboxWrite", "archiveWrite", "release", "done"}
    /\ err[q] = ""
    /\ \E i \in 1..Len(readYamlList(pre[q][InboxFile])) :
         readYamlList(pre[q][InboxFile])[i] = row

\* C38: a candidate that a finished capture run appended to the inbox file
\* is in that file unless a triage or promote run has processed it.
C38_NoCandidateLost ==
  \A p \in Procs :
    (op[p] = "capture" /\ pc[p] = "done") =>
      \A row \in CapturedBy(p) :
        \/ \E i \in 1..Len(files[InboxFile].rows) : files[InboxFile].rows[i] = row
        \/ ProcessedRow(row)

\* the number of items in the three buckets
TotalCount(buckets) ==
  Len(buckets.active) + Len(buckets.pending) + Len(buckets.deprecated)

\* a changeStatus or mergeConflict call has returned its result and still
\* holds the lock
ReturnedUnderLock(p) ==
  /\ op[p] \in {"changeStatus", "mergeConflict"}
  /\ pc[p] = "release"
  /\ err[p] = ""

====
